---- MODULE Spec2Model ----
(***************************************************************************)
(* A model of intake-document: the markdown renderer (renderer.py), the    *)
(* document processor with its checksum cache (processor.py), the element *)
(* extractor of OCR responses (ocr/extraction.py, ocr/ocr.py) and the      *)
(* loading of the settings (config.py).                                    *)
(*                                                                         *)
(* Text is a sequence of tokens.  A token is a piece of a Python string:   *)
(* every newline, blank, '|', '#' and '\' is a token of its own, so that   *)
(* rstrip, replace and the tests on the first and last character are       *)
(* computed as the code computes them.  Flatten gives the Python string.   *)
(* An Optional value is a sequence of at most one value: None is << >>.    *)
(***************************************************************************)
EXTENDS Integers, Sequences, FiniteSets, TLC

VARIABLES
    document,      \* renderer: the Document handed to render_markdown
    rendered,      \* renderer: Optional outcome of render_markdown
    element,       \* renderer: the element handed to a _render_*_element method
    elementResult, \* renderer: Optional outcome of that method
    fileState,     \* processor: the input files on disk, path -> state
    cache,         \* processor: DocumentProcessor._processed_documents
    outFiles,      \* processor: the output directory, output path -> content
    ocrCalls,      \* processor: OCR invocations so far, per checksum
    ocrDone,       \* processor: OCR and render completions so far, per checksum
    ops,           \* processor: number of calls made on the processor
    last,          \* processor: what the last process_file call did
    batch,         \* processor: what the last process_directory call did
    text,          \* extractor: the raw text of an OCR response
    extracted,     \* extractor: Optional outcome of extract_elements_from_text
    apiResult,     \* extractor: Optional outcome of _process_api_response
    table,         \* extractor: the table handed to fix_table_orientation
    oriented,      \* extractor: Optional outcome of fix_table_orientation
    configFiles,   \* config: the init.cfg of every config directory
    environ,       \* config: os.environ, the three variables that are read
    settings,      \* config: Optional outcome of Config.settings
    file_info,     \* OCR client: the dictionary of _prepare_document
    api,           \* OCR client: the MistralAPI and what the service does
    requests,      \* OCR client: the request methods called, in order
    outcome        \* OCR client: Optional outcome of _extract_document_elements

rendererVars == <<document, rendered, element, elementResult>>
processorVars == <<fileState, cache, outFiles, ocrCalls, ocrDone, ops, last, batch>>
extractorVars == <<text, extracted, apiResult, table, oriented>>
configVars == <<configFiles, environ, settings>>
requestVars == <<file_info, api, requests, outcome>>
vars == <<document, rendered, element, elementResult, fileState, cache,
          outFiles, ocrCalls, ocrDone, ops, last, batch, text, extracted,
          apiResult, table, oriented, configFiles, environ, settings,
          file_info, api, requests, outcome>>

(***************************************************************************)
(* Bounds of the model.                                                    *)
(***************************************************************************)
MaxElems == 3      \* elements of a rendered document
LevelSlack == 2    \* heading levels tried below 1 and above 6
MaxHeaders == 2    \* header cells of a table
MaxRows == 2       \* data rows of a table
MaxCells == 3      \* cells of a data row
MaxOps == 2        \* calls made on one DocumentProcessor
MaxLines == 3      \* lines of a raw text
MaxOrientCols == 12  \* columns of a table handed to fix_table_orientation
MaxOrientRows == 12  \* rows of a table handed to fix_table_orientation
MaxRenderedLines == 5   \* lines of a markdown that is rendered and read back

(***************************************************************************)
(* Python values.                                                          *)
(***************************************************************************)
None == << >>
Some(v) == <<v>>

\* models.document.TextElement / TableElement / ImageElement
TextElement(content, level, is_list_item) ==
    [element_type |-> "text", content |-> content, level |-> level,
     is_list_item |-> is_list_item]

TableElement(headers, rows) ==
    [element_type |-> "table", headers |-> headers, rows |-> rows]

ImageElement(image_id, caption) ==
    [element_type |-> "image", image_id |-> image_id, caption |-> caption]

\* models.document.Document, the fields the renderer and the processor use
Document(checksum, elements, markdown) ==
    [checksum |-> checksum, elements |-> elements, markdown |-> markdown]

\* IntakeDocumentError.__init__: an exception is its class, message and detail
Exception(kind, message, detail) ==
    [kind |-> kind, message |-> message, detail |-> detail]

\* str(e): f"{message}{f': {detail}' if detail else ''}"
StrOf(e) ==
    IF e.detail # "" THEN e.message \o ": " \o e.detail ELSE e.message

Returns(v) == [ok |-> TRUE, val |-> v]
Raises(e) == [ok |-> FALSE, err |-> e]

(***************************************************************************)
(* String helpers, on token sequences.                                     *)
(***************************************************************************)
NL == "\n"
Blank == " "
Whitespace == {" ", "\n", "\t", "\r"}

RECURSIVE Flatten(_)
Flatten(s) == IF s = << >> THEN "" ELSE Head(s) \o Flatten(Tail(s))

RECURSIVE Repeat(_, _)
Repeat(s, n) == IF n <= 0 THEN << >> ELSE s \o Repeat(s, n - 1)

\* sep.join(parts)
RECURSIVE Join(_, _)
Join(sep, parts) ==
    IF parts = << >> THEN << >>
    ELSE IF Len(parts) = 1 THEN parts[1]
    ELSE parts[1] \o sep \o Join(sep, Tail(parts))

\* s.rstrip()
RECURSIVE RStrip(_)
RStrip(s) ==
    IF s # << >> /\ s[Len(s)] \in Whitespace
    THEN RStrip(SubSeq(s, 1, Len(s) - 1))
    ELSE s

\* cell.replace("|", "\\|")
RECURSIVE EscapePipes(_)
EscapePipes(cell) ==
    IF cell = << >> THEN << >>
    ELSE (IF Head(cell) = "|" THEN <<"\\", "|">> ELSE <<Head(cell)>>)
         \o EscapePipes(Tail(cell))

(***************************************************************************)
(* renderer.py                                                             *)
(***************************************************************************)
MinHeadingLevel == 1
MaxHeadingLevel == 6

\* Variant: the list-item test comes before the level's range is looked at
render_text_element_ListBeforeRange(e) ==
    IF e.content = << >> THEN << >>
    ELSE IF e.level # None /\ MinHeadingLevel <= e.level[1]
            /\ e.level[1] <= MaxHeadingLevel
    THEN Repeat(<<"#">>, e.level[1]) \o <<Blank>> \o e.content
    ELSE IF e.is_list_item THEN <<"-", Blank>> \o e.content
    ELSE e.content

\* Variant: the level's upper limit is not checked
render_text_element_NoUpperLimit(e) ==
    IF e.content = << >> THEN << >>
    ELSE IF e.level # None
    THEN IF MinHeadingLevel <= e.level[1]
         THEN Repeat(<<"#">>, e.level[1]) \o <<Blank>> \o e.content
         ELSE e.content
    ELSE IF e.is_list_item THEN <<"-", Blank>> \o e.content
    ELSE e.content

\* MarkdownRenderer._render_text_element
render_text_element(e) ==
    IF e.content = << >> THEN << >>
    ELSE IF e.level # None
    THEN IF MinHeadingLevel <= e.level[1] /\ e.level[1] <= MaxHeadingLevel
         THEN Repeat(<<"#">>, e.level[1]) \o <<Blank>> \o e.content
         ELSE e.content
    ELSE IF e.is_list_item THEN <<"-", Blank>> \o e.content
    ELSE e.content

\* The loop of _render_table_element that adjusts one row: a short row is
\* extended in place; for a long row the slice is bound to the loop variable
\* only, and the row held by the element stays as it was.
AdjustRow(row, headers) ==
    IF Len(row) < Len(headers)
    THEN row \o [i \in 1..(Len(headers) - Len(row)) |-> << >>]
    ELSE row

\* element.rows after the adjusting loop
AdjustedRows(e) == [i \in 1..Len(e.rows) |-> AdjustRow(e.rows[i], e.headers)]

\* "| " + " | ".join(cells) + " |\n"
TableLine(cells) ==
    <<"|", Blank>> \o Join(<<Blank, "|", Blank>>, cells) \o <<Blank, "|", NL>>

RECURSIVE DataLines(_)
DataLines(rows) ==
    IF rows = << >> THEN << >>
    ELSE TableLine([i \in 1..Len(rows[1]) |-> EscapePipes(rows[1][i])])
         \o DataLines(Tail(rows))

\* MarkdownRenderer._render_table_element
render_table_element(e) ==
    IF e.headers = << >>
    THEN Raises(Exception("RenderError", "Table has no headers", ""))
    ELSE Returns(RStrip(
            TableLine(e.headers)
            \o TableLine([i \in 1..Len(e.headers) |-> <<"---">>])
            \o DataLines(AdjustedRows(e))))

\* MarkdownRenderer._render_image_element
render_image_element(e) ==
    IF e.image_id = << >>
    THEN Raises(Exception("RenderError", "Image element missing image_id", ""))
    ELSE LET alt_text == IF e.caption # None /\ e.caption[1] # << >>
                         THEN e.caption[1] ELSE <<"Image">>
         IN Returns(<<"!", "[">> \o alt_text \o <<"]", "(", "images/">>
                    \o e.image_id \o <<".png", ")">>)

\* the isinstance dispatch inside render_markdown's loop
RenderElement(e) ==
    CASE e.element_type = "text" -> Returns(render_text_element(e))
      [] e.element_type = "table" -> render_table_element(e)
      [] e.element_type = "image" -> render_image_element(e)
      [] OTHER -> Returns(<<"<!--", Blank, "Unsupported element type:", Blank,
                            e.element_type, Blank, "-->">>)

\* f"<!-- Error rendering element: {str(e)} -->"
ErrorComment(err) ==
    <<"<!--", Blank, "Error rendering element:", Blank, StrOf(err), Blank, "-->">>

\* Variant: the separator is added before every element, the first included
RenderStepAlwaysSpaced(markdown, e) ==
    LET spaced == markdown \o <<NL, NL>>
        r == RenderElement(e)
    IN IF r.ok THEN spaced \o r.val
       ELSE spaced \o <<NL, NL>> \o ErrorComment(r.err) \o <<NL, NL>>

\* Variant: an element that fails leaves nothing in the markdown
RenderStepDropFailed(markdown, e) ==
    LET spaced == IF markdown # << >> THEN markdown \o <<NL, NL>> ELSE markdown
        r == RenderElement(e)
    IN IF r.ok THEN spaced \o r.val ELSE spaced

\* One pass of render_markdown's loop body over element i
RenderStep(markdown, e) ==
    LET spaced == IF markdown # << >> THEN markdown \o <<NL, NL>> ELSE markdown
        r == RenderElement(e)
    IN IF r.ok THEN spaced \o r.val
       ELSE spaced \o <<NL, NL>> \o ErrorComment(r.err) \o <<NL, NL>>

RECURSIVE RenderLoop(_, _, _)
RenderLoop(elements, i, markdown) ==
    IF i > Len(elements) THEN markdown
    ELSE RenderLoop(elements, i + 1, RenderStep(markdown, elements[i]))

\* What rendering leaves of an element: a table's short rows stay extended
ElementAfterRender(e) ==
    IF e.element_type = "table" /\ e.headers # << >>
    THEN [e EXCEPT !.rows = AdjustedRows(e)]
    ELSE e

\* Variant: a document without elements is a hard error.
render_markdown_RaiseOnEmpty(doc) ==
    IF doc.elements = << >>
    THEN Raises(Exception("RenderError",
                          "Failed to render markdown for document: "
                              \o doc.checksum,
                          "No elements to render in document"))
    ELSE Returns([doc EXCEPT
            !.markdown = Some(RenderLoop(doc.elements, 1, << >>)),
            !.elements = [i \in 1..Len(doc.elements) |->
                             ElementAfterRender(doc.elements[i])]])

\* MarkdownRenderer.render_markdown: the document with its markdown set
render_markdown(doc) ==
    Returns([doc EXCEPT
        !.markdown = Some(RenderLoop(doc.elements, 1, << >>)),
        !.elements = [i \in 1..Len(doc.elements) |->
                         ElementAfterRender(doc.elements[i])]])

(***************************************************************************)
(* The file system the processor works on.                                 *)
(***************************************************************************)
\* The input directory and its immediate children: three files and one
\* sub-directory.  Two files share their stem; one has an unsupported type.
InputDir == "docs"
SubDir == "docs/sub"
Paths == {"docs/a.pdf", "docs/a.PNG", "docs/n.txt"}
DirArgs == {InputDir, "docs/none"}

\* pathlib: Path.stem, Path.suffix, str.lower, str.lstrip(".")
Stem(p) ==
    CASE p = "docs/a.pdf" -> "a"
      [] p = "docs/a.PNG" -> "a"
      [] p = "docs/n.txt" -> "n"
      [] p = SubDir -> "sub"

Suffix(p) ==
    CASE p = "docs/a.pdf" -> ".pdf"
      [] p = "docs/a.PNG" -> ".PNG"
      [] p = "docs/n.txt" -> ".txt"
      [] p = SubDir -> ""

Lower(s) == CASE s = ".PNG" -> ".png" [] OTHER -> s

LStripDot(s) ==
    CASE s = ".pdf" -> "pdf" [] s = ".png" -> "png" [] s = ".txt" -> "txt"
      [] s = ".PNG" -> "PNG" [] OTHER -> s

\* A file is missing, or cannot be read, or holds a content.  A content is
\* identified with its SHA-512 digest.
Contents == {"c1", "c2"}
FileStates == {"missing", "unreadable"} \cup Contents

\* Path.exists(); Path.is_file()
Exists(files, p) == p = SubDir \/ (p \in Paths /\ files[p] # "missing")
IsFile(files, p) == p \in Paths /\ files[p] # "missing"

\* dir_path.iterdir(), as a set: the order of the listing is the platform's
Children(files) == {p \in Paths : files[p] # "missing"} \cup {SubDir}

\* models.document.DocumentType
DocumentType == {"pdf", "png", "jpg", "jpeg", "tiff", "docx"}

\* What the OCR client extracts from a file is not the processor's to decide
OcrElements ==
    { << >>,
      << TextElement(<<"T">>, Some(1), FALSE), ImageElement(<< >>, None) >> }

OcrOutcomes ==
    {Returns(es) : es \in OcrElements}
    \cup {Raises(Exception("OCRError", "Error processing document with OCR", "api"))}

\* What the environment decides during one process_file call: the outcome
\* of the OCR client, of Path.stat() in get_file_metadata, and of writing
\* the output file (open() succeeds or fails)
Envs ==
    [ocr : OcrOutcomes, statOk : BOOLEAN, write : {"ok", "open_error"}]

(***************************************************************************)
(* utils/file_utils.py                                                     *)
(***************************************************************************)
\* calculate_sha512
calculate_sha512(files, p) ==
    IF files[p] \in Contents THEN Returns(files[p])
    ELSE Raises(Exception("FileError", "Failed to calculate checksum for " \o p,
                          "Permission denied"))

\* get_file_metadata
get_file_metadata(p, statOk) ==
    IF statOk THEN Returns("metadata")
    ELSE Raises(Exception("FileError", "Failed to get metadata for " \o p,
                          "Input/output error"))

(***************************************************************************)
(* processor.py                                                            *)
(***************************************************************************)
\* DocumentProcessor._get_document_type
get_document_type(p) ==
    LET ext == LStripDot(Lower(Suffix(p)))
    IN IF ext \in DocumentType THEN Some(ext) ELSE None

\* DocumentProcessor._get_output_path
get_output_path(p) == "output/" \o Stem(p) \o ".md"

\* f[k] := v, for a function used as a dict
Put(f, k, v) == [x \in DOMAIN f \cup {k} |-> IF x = k THEN v ELSE f[x]]

Count(f, k) == IF k \in DOMAIN f THEN f[k] ELSE 0

\* DocumentProcessor._save_markdown: the output directory afterwards, and
\* the outcome
save_markdown(files, doc, output_path, write) ==
    IF doc.markdown = None
    THEN [outFiles |-> files,
          result |-> Raises(Exception("DocumentError",
                                      "No markdown content to save", ""))]
    ELSE IF write = "ok"
    THEN [outFiles |-> Put(files, output_path, doc.markdown[1]),
          result |-> Returns(output_path)]
    ELSE [outFiles |-> files,
          result |-> Raises(Exception("DocumentError",
                                      "Failed to save markdown to " \o output_path,
                                      "Permission denied"))]

\* The state of the processor and of the disk that process_file works on
ProcState == [cache |-> cache, outFiles |-> outFiles,
              ocrCalls |-> ocrCalls, ocrDone |-> ocrDone]

\* What one process_file call did: st is the state it leaves, result what
\* the caller gets; the other fields record the steps it took.
Outcome(st, p, result, checksum, hit, ocr, render, wrote) ==
    [st |-> st, path |-> p, result |-> result, checksum |-> checksum,
     cacheHit |-> hit, ocrInvoked |-> ocr, renderInvoked |-> render,
     wroteTo |-> wrote]

\* Variant: the handler lets the exception through as it is
WrapException_Reraise(p, e) == [ok |-> FALSE, err |-> e, cause |-> e]

\* the handler at the end of process_file: except Exception as e
WrapException(p, e) ==
    [ok |-> FALSE,
     err |-> Exception("DocumentError", "Failed to process document: " \o p,
                       StrOf(e)),
     cause |-> e]

\* Variant: a cached Document is taken as already saved, and is not written
SaveAndReturn_NoWriteOnHit(st, p, doc, checksum, hit, env) ==
    LET output_path == get_output_path(p)
        saved == save_markdown(st.outFiles, doc, output_path, env.write)
        st2 == IF hit THEN st ELSE [st EXCEPT !.outFiles = saved.outFiles]
    IN Outcome(st2, p,
               IF hit \/ saved.result.ok THEN Returns(output_path)
               ELSE WrapException(p, saved.result.err),
               Some(checksum), hit, ~hit, ~hit, Some(output_path))

\* process_file, the part after a Document is at hand: save and return
SaveAndReturn(st, p, doc, checksum, hit, env) ==
    LET output_path == get_output_path(p)
        saved == save_markdown(st.outFiles, doc, output_path, env.write)
        st2 == [st EXCEPT !.outFiles = saved.outFiles]
    IN Outcome(st2, p,
               IF saved.result.ok THEN Returns(output_path)
               ELSE WrapException(p, saved.result.err),
               Some(checksum), hit, ~hit, ~hit, Some(output_path))

\* Variant: a Document is stored in the cache as soon as OCR was asked for
\* it, rendered or not
ProcessUncached_StoreUnrendered(st, p, checksum, env) ==
    LET st1 == [st EXCEPT !.ocrCalls = Put(@, checksum, Count(@, checksum) + 1)]
    IN IF ~env.ocr.ok
       THEN Outcome([st1 EXCEPT
                        !.cache = Put(@, checksum, Document(checksum, << >>, None))],
                    p, WrapException(p, env.ocr.err),
                    Some(checksum), FALSE, TRUE, FALSE, None)
       ELSE LET r == render_markdown(Document(checksum, env.ocr.val, None))
            IN IF ~r.ok
               THEN Outcome(st1, p, WrapException(p, r.err),
                            Some(checksum), FALSE, TRUE, TRUE, None)
               ELSE SaveAndReturn(
                        [st1 EXCEPT
                            !.cache = Put(@, checksum, r.val),
                            !.ocrDone = Put(@, checksum, Count(@, checksum) + 1)],
                        p, r.val, checksum, FALSE, env)

\* process_file, the cache miss: OCR, render, store in the cache
ProcessUncached(st, p, checksum, env) ==
    LET st1 == [st EXCEPT !.ocrCalls = Put(@, checksum, Count(@, checksum) + 1)]
    IN IF ~env.ocr.ok
       THEN Outcome(st1, p, WrapException(p, env.ocr.err),
                    Some(checksum), FALSE, TRUE, FALSE, None)
       ELSE LET r == render_markdown(Document(checksum, env.ocr.val, None))
            IN IF ~r.ok
               THEN Outcome(st1, p, WrapException(p, r.err),
                            Some(checksum), FALSE, TRUE, TRUE, None)
               ELSE SaveAndReturn(
                        [st1 EXCEPT
                            !.cache = Put(@, checksum, r.val),
                            !.ocrDone = Put(@, checksum, Count(@, checksum) + 1)],
                        p, r.val, checksum, FALSE, env)

\* Variant: the cache is never consulted
LookUpOrProcess_NoLookUp(st, p, checksum, env) ==
    ProcessUncached(st, p, checksum, env)

\* process_file, the look-up in _processed_documents
LookUpOrProcess(st, p, checksum, env) ==
    IF checksum \in DOMAIN st.cache
    THEN SaveAndReturn(st, p, st.cache[checksum], checksum, TRUE, env)
    ELSE ProcessUncached(st, p, checksum, env)

\* process_file, the try block up to the look-up
ProcessExisting(st, files, p, env) ==
    LET sum == calculate_sha512(files, p)
        meta == get_file_metadata(p, env.statOk)
    IN IF ~sum.ok
       THEN Outcome(st, p, WrapException(p, sum.err),
                    None, FALSE, FALSE, FALSE, None)
       ELSE IF ~meta.ok
       THEN Outcome(st, p, WrapException(p, meta.err),
                    None, FALSE, FALSE, FALSE, None)
       ELSE LookUpOrProcess(st, p, sum.val, env)

\* DocumentProcessor.process_file
process_file(st, files, p, env) ==
    IF ~Exists(files, p)
    THEN Outcome(st, p,
                 Raises(Exception("FileNotFoundError", "File not found: " \o p, "")),
                 None, FALSE, FALSE, FALSE, None)
    ELSE IF get_document_type(p) = None
    THEN Outcome(st, p,
                 Raises(Exception("FileTypeError",
                                  "Unsupported file type: " \o Suffix(p), "")),
                 None, FALSE, FALSE, FALSE, None)
    ELSE ProcessExisting(st, files, p, env)

\* What process_directory has done so far
Batch(dir, status, remaining, listing, handed, succeeded, output_paths, stats, result) ==
    [dir |-> dir, status |-> status, remaining |-> remaining, listing |-> listing,
     handed |-> handed, succeeded |-> succeeded, output_paths |-> output_paths,
     stats |-> stats, result |-> result]

\* process_directory up to its loop
process_directory_start(files, dir, listOk) ==
    LET none == [processed |-> 0, skipped |-> 0, failed |-> 0, total |-> 0]
    IN IF dir # InputDir
       THEN Batch(dir, "raised", {}, << >>, << >>, << >>, << >>, none,
                  Raises(Exception("DocumentError",
                                   "Not a valid directory: " \o dir, "")))
       ELSE IF ~listOk
       THEN Batch(dir, "raised", {}, << >>, << >>, << >>, << >>, none,
                  Raises(Exception("DocumentError",
                                   "Error reading directory: " \o dir,
                                   "Input/output error")))
       ELSE Batch(dir, "running", Children(files), << >>, << >>, << >>, << >>,
                  [none EXCEPT !.total =
                      Cardinality({p \in Children(files) : IsFile(files, p)})],
                  None)

\* the return after the loop, once iterdir() is exhausted
ReturnWhenExhausted(b) ==
    IF b.status = "running" /\ b.remaining = {}
    THEN [b EXCEPT !.status = "returned", !.result = Some(Returns(b.output_paths))]
    ELSE b

\* Variant of the loop body: the first file that fails ends the batch
process_directory_step_AbortOnFailure(b, out, files, p) ==
    LET b1 == [b EXCEPT !.remaining = @ \ {p}, !.listing = Append(@, p)]
    IN ReturnWhenExhausted(
        IF ~IsFile(files, p) THEN b1
        ELSE IF get_document_type(p) = None
        THEN [b1 EXCEPT !.stats.skipped = @ + 1]
        ELSE IF out.result.ok
        THEN [b1 EXCEPT !.handed = Append(@, p),
                        !.succeeded = Append(@, TRUE),
                        !.output_paths = Append(@, out.result.val),
                        !.stats.processed = @ + 1]
        ELSE [b1 EXCEPT !.handed = Append(@, p),
                        !.succeeded = Append(@, FALSE),
                        !.status = "raised",
                        !.result = Some(Raises(out.result.err))])

\* One pass of process_directory's loop body, over the child p; out is the
\* outcome of process_file(p), looked at only when p is handed to it
process_directory_step(b, out, files, p) ==
    LET b1 == [b EXCEPT !.remaining = @ \ {p}, !.listing = Append(@, p)]
    IN ReturnWhenExhausted(
        IF ~IsFile(files, p) THEN b1
        ELSE IF get_document_type(p) = None
        THEN [b1 EXCEPT !.stats.skipped = @ + 1]
        ELSE IF out.result.ok
        THEN [b1 EXCEPT !.handed = Append(@, p),
                        !.succeeded = Append(@, TRUE),
                        !.output_paths = Append(@, out.result.val),
                        !.stats.processed = @ + 1]
        ELSE [b1 EXCEPT !.handed = Append(@, p),
                        !.succeeded = Append(@, FALSE),
                        !.stats.failed = @ + 1])

\* Whether the loop body hands p to process_file
HandsToProcessFile(files, p) == IsFile(files, p) /\ get_document_type(p) # None

(***************************************************************************)
(* ocr/extraction.py: the element extractor.                               *)
(*                                                                         *)
(* The raw text is a sequence of tokens as above.  Further tokens of their *)
(* own: '-', '*', ':', '.', '/', ')' and the two-character marks "![" and  *)
(* "](" ; a run of dashes ("---") and a number with its dot ("1.") are one *)
(* token each.  Every other token is a word that holds none of these       *)
(* characters, so a regular expression of the code is decided by the       *)
(* tokens it meets.                                                        *)
(***************************************************************************)
\* the descriptors (dicts) the extractor emits
Paragraph(content) == [type |-> "paragraph", content |-> content]
Heading(level, content) ==
    [type |-> "heading", level |-> level, content |-> content]
ListItem(content) == [type |-> "list_item", content |-> content]
TableDescriptor(headers, rows) ==
    [type |-> "table", headers |-> headers, rows |-> rows]
ImageDescriptor(id, caption) ==
    [type |-> "image", id |-> id, caption |-> caption]

\* s.lstrip(), s.strip()
RECURSIVE LStrip(_)
LStrip(s) ==
    IF s # << >> /\ Head(s) \in Whitespace THEN LStrip(Tail(s)) ELSE s

Strip(s) == LStrip(RStrip(s))

\* s.find(t) + 1: the first position of token t in s, 0 when there is none
IndexOf(s, t) ==
    LET I == {i \in 1..Len(s) : s[i] = t}
    IN IF I = {} THEN 0 ELSE CHOOSE i \in I : \A j \in I : i <= j

\* s.split(sep)
RECURSIVE Split(_, _)
Split(s, sep) ==
    LET i == IndexOf(s, sep)
    IN IF i = 0 THEN <<s>>
       ELSE <<SubSeq(s, 1, i - 1)>> \o Split(SubSeq(s, i + 1, Len(s)), sep)

\* len(text), in characters
CharLen(s) == Len(Flatten(s))

\* the tokens that hold one of the characters of [#|\-\*]
MarkdownTokens == {"#", "|", "-", "*", "---"}

\* re.search(r'[#|\-\*]', text)
HasMarkdownChar(s) == \E i \in 1..Len(s) : s[i] \in MarkdownTokens

\* str.lower(), token by token
LowerToken(t) ==
    CASE t = "Unable" -> "unable"
      [] t = "FILE" -> "file"
      [] OTHER -> t

LowerText(s) == [i \in 1..Len(s) |-> LowerToken(s[i])]

\* `word in text`: the tokens of word stand next to each other in s
Contains(s, word) ==
    \E i \in 1..(Len(s) - Len(word) + 1) :
        SubSeq(s, i, i + Len(word) - 1) = word

\* extraction.py:56, the text reads as a refusal of the API
IsRefusal(s) ==
    /\ Contains(LowerText(s), <<"unable", Blank, "to">>)
    /\ Contains(LowerText(s), <<"process">>)
    /\ Contains(LowerText(s), <<"file">>)

MinTextLength == 10     \* extraction.py:42, len(text) < 10
MaxHashes == 6          \* extraction.py:168, #{1,6}

\* the number of '#' a line starts with
RECURSIVE HashCount(_)
HashCount(line) ==
    IF line # << >> /\ Head(line) = "#" THEN 1 + HashCount(Tail(line)) ELSE 0

\* re.match(r"^(#{1,6})\s+(.+)$", line)
HeadingMatch(line) ==
    LET n == HashCount(line)
    IN /\ n \in 1..MaxHashes
       /\ Len(line) >= n + 2
       /\ line[n + 1] \in Whitespace

\* the mark, the blanks after it, and then group(..).strip()
AfterMark(line, n) == Strip(SubSeq(line, n + 2, Len(line)))

\* the tokens \d+\. matches
NumberTokens == {"1."}

\* re.match(r"^[-*]\s+(.+)$", line) or re.match(r"^(\d+\.)\s+(.+)$", line)
ListItemMatch(line) ==
    /\ Len(line) >= 3
    /\ line[1] \in {"-", "*"} \cup NumberTokens
    /\ line[2] \in Whitespace

\* the paragraph a helper appends before its own element
Flushed(elements, current_text) ==
    IF current_text # << >>
    THEN Append(elements, Paragraph(current_text))
    ELSE elements

\* re.match(r"^\|(.+)\|$", line)
TableRowMatch(line) ==
    Len(line) >= 3 /\ line[1] = "|" /\ line[Len(line)] = "|"

\* [cell.strip() for cell in line[1:-1].split("|")]
CellsOf(line) ==
    LET parts == Split(SubSeq(line, 2, Len(line) - 1), "|")
    IN [i \in 1..Len(parts) |-> Strip(parts[i])]

\* the tokens made of '-' and ':' only
DashTokens == {"-", ":", "---"}

\* all(cell == "" or re.match(r"^[-:]+$", cell) for cell in cells)
IsSeparatorRow(cells) ==
    \A i \in 1..Len(cells) :
        \A k \in 1..Len(cells[i]) : cells[i][k] \in DashTokens

\* the row padded with empty cells, or cut, to the number of headers
FitRow(cells, n) ==
    [i \in 1..n |-> IF i <= Len(cells) THEN cells[i] ELSE << >>]

\* the tuple _process_table_line returns
TableState(in_table, headers, rows, finished) ==
    [in_table |-> in_table, table_headers |-> headers, table_rows |-> rows,
     table_finished |-> finished]

\* Variant: a separator row is appended like any other row.
process_table_line_KeepSeparator(line, in_table, table_headers, table_rows) ==
    IF TableRowMatch(line) /\ ~in_table
    THEN TableState(TRUE, CellsOf(line), << >>, FALSE)
    ELSE IF in_table /\ TableRowMatch(line)
    THEN TableState(in_table, table_headers,
                    Append(table_rows,
                           FitRow(CellsOf(line), Len(table_headers))),
                    FALSE)
    ELSE IF in_table
    THEN TableState(FALSE, << >>, << >>, TRUE)
    ELSE TableState(in_table, table_headers, table_rows, FALSE)

\* ElementExtractor._process_table_line
process_table_line(line, in_table, table_headers, table_rows) ==
    IF TableRowMatch(line) /\ ~in_table
    THEN TableState(TRUE, CellsOf(line), << >>, FALSE)
    ELSE IF in_table /\ TableRowMatch(line)
    THEN IF IsSeparatorRow(CellsOf(line))
         THEN TableState(in_table, table_headers, table_rows, FALSE)
         ELSE TableState(in_table, table_headers,
                         Append(table_rows,
                                FitRow(CellsOf(line), Len(table_headers))),
                         FALSE)
    ELSE IF in_table
    THEN TableState(FALSE, << >>, << >>, TRUE)
    ELSE TableState(in_table, table_headers, table_rows, FALSE)

\* re.match(r"!\[(.*?)\]\((.*?)\)", line): the line starts with "![", the
\* caption ends at the first "](" and the url at the first ")" after it
UrlPart(line) == SubSeq(line, IndexOf(line, "](") + 1, Len(line))

ImageMatch(line) ==
    /\ line # << >>
    /\ line[1] = "!["
    /\ IndexOf(line, "](") > 0
    /\ IndexOf(UrlPart(line), ")") > 0

\* re.sub(r"^.*/", "", s): what follows the last '/'
RECURSIVE AfterLastSlash(_)
AfterLastSlash(s) ==
    LET i == IndexOf(s, "/")
    IN IF i = 0 THEN s ELSE AfterLastSlash(SubSeq(s, i + 1, Len(s)))

\* the descriptor _try_extract_image appends
ImageOf(line) ==
    LET caption == SubSeq(line, 2, IndexOf(line, "](") - 1)
        image_url == SubSeq(UrlPart(line), 1, IndexOf(UrlPart(line), ")") - 1)
        image_id == AfterLastSlash(Split(image_url, ".")[1])
    IN ImageDescriptor(image_id, caption)

\* the locals of _process_lines
LineState(elements, current_text, in_table, table_headers, table_rows) ==
    [elements |-> elements, current_text |-> current_text,
     in_table |-> in_table, table_headers |-> table_headers,
     table_rows |-> table_rows]

\* one pass of the loop of _process_lines
process_line(st, raw) ==
    LET line == Strip(raw)
        t == process_table_line(line, st.in_table, st.table_headers,
                                st.table_rows)
    IN IF line = << >>
       THEN [st EXCEPT !.elements = Flushed(st.elements, st.current_text),
                       !.current_text = << >>]
       ELSE IF HeadingMatch(line)
       THEN [st EXCEPT
                !.elements = Append(Flushed(st.elements, st.current_text),
                                    Heading(HashCount(line),
                                            AfterMark(line, HashCount(line)))),
                !.current_text = << >>]
       ELSE IF ListItemMatch(line)
       THEN [st EXCEPT
                !.elements = Append(Flushed(st.elements, st.current_text),
                                    ListItem(AfterMark(line, 1))),
                !.current_text = << >>]
       ELSE IF t.table_finished /\ st.current_text # << >>
       THEN LineState(Append(st.elements, Paragraph(st.current_text)), << >>,
                      t.in_table, t.table_headers, t.table_rows)
       ELSE IF t.in_table
       THEN LineState(Flushed(st.elements, st.current_text), << >>,
                      t.in_table, t.table_headers, t.table_rows)
       ELSE IF t.table_finished
       THEN LineState(Append(st.elements,
                             TableDescriptor(t.table_headers, t.table_rows)),
                      st.current_text,
                      t.in_table, t.table_headers, t.table_rows)
       ELSE IF ImageMatch(line)
       THEN LineState(Append(Flushed(st.elements, st.current_text),
                             ImageOf(line)),
                      << >>, t.in_table, t.table_headers, t.table_rows)
       ELSE LineState(st.elements,
                      IF st.current_text # << >>
                      THEN st.current_text \o <<Blank>> \o line
                      ELSE line,
                      t.in_table, t.table_headers, t.table_rows)

\* the loop of _process_lines over lines[i..]
RECURSIVE LinesLoop(_, _, _)
LinesLoop(lines, i, st) ==
    IF i > Len(lines) THEN st
    ELSE LinesLoop(lines, i + 1, process_line(st, lines[i]))

\* the locals of _process_lines when its loop has run over all the lines
AfterLines(lines) ==
    LinesLoop(lines, 1, LineState(<< >>, << >>, FALSE, << >>, << >>))

\* _process_lines, after the loop: the remaining text and the open table
FinishLines(st) ==
    LET flushed == Flushed(st.elements, st.current_text)
    IN IF st.in_table /\ st.table_headers # << >> /\ st.table_rows # << >>
       THEN Append(flushed, TableDescriptor(st.table_headers, st.table_rows))
       ELSE flushed

\* ElementExtractor._process_lines: the elements it appends
process_lines(lines) == FinishLines(AfterLines(lines))

TextTooShort ==
    Exception("OCRTextExtractionError",
              "Text too short for meaningful extraction", "")

\* the raise of line 71, caught at line 73 and raised again at line 78
NothingExtracted ==
    Exception("OCRTextExtractionError", "Failed to extract elements",
              StrOf(Exception("OCRTextExtractionError",
                              "No elements could be extracted", "")))

\* Variant: a refusal is scanned line by line like any other text.
ExtractLongEnough_NoRefusalCheck(txt) ==
    LET lines == Split(txt, NL)
        elements == process_lines(lines)
    IN IF Len(lines) = 1 /\ ~HasMarkdownChar(txt)
       THEN Returns(<<Paragraph(Strip(txt))>>)
       ELSE IF elements # << >>
       THEN Returns(elements)
       ELSE IF Strip(txt) # << >>
       THEN Returns(<<Paragraph(Strip(txt))>>)
       ELSE Raises(NothingExtracted)

\* the part of extract_elements_from_text inside its try
ExtractLongEnough(txt) ==
    LET lines == Split(txt, NL)
        elements == process_lines(lines)
    IN IF Len(lines) = 1 /\ ~HasMarkdownChar(txt)
       THEN Returns(<<Paragraph(Strip(txt))>>)
       ELSE IF IsRefusal(txt)
       THEN Returns(<<Paragraph(<<"#", Blank>> \o Strip(txt))>>)
       ELSE IF elements # << >>
       THEN Returns(elements)
       ELSE IF Strip(txt) # << >>
       THEN Returns(<<Paragraph(Strip(txt))>>)
       ELSE Raises(NothingExtracted)

\* Variant: a text of any length goes on to the extraction.
extract_elements_from_text_NoMinimum(txt) == ExtractLongEnough(txt)

\* ElementExtractor.extract_elements_from_text
extract_elements_from_text(txt) ==
    IF txt = << >> \/ CharLen(txt) < MinTextLength
    THEN Raises(TextTooShort)
    ELSE ExtractLongEnough(txt)

TransposeMinCols == 10  \* extraction.py:317, num_cols <= 10

\* "Column " + str(i+1), for i in range(n)
ColumnLabels(n) == [i \in 1..n |-> <<"Column", Blank, ToString(i)>>]

\* first_row: the first header and the first cell of every row that has one
FirstTransposedRow(headers, rows) ==
    LET filled == SelectSeq(rows, LAMBDA row : row # << >>)
    IN <<headers[1]>> \o [k \in 1..Len(filled) |-> filled[k][1]]

\* new_row of column i: header i and cell i of every row, "" where a row
\* has no cell i
TransposedRow(headers, rows, i) ==
    <<headers[i]>> \o
    [k \in 1..Len(rows) |-> IF i <= Len(rows[k]) THEN rows[k][i] ELSE << >>]

Transposed(headers, rows) ==
    [headers |-> ColumnLabels(Len(rows)),
     rows |-> [i \in 1..Len(headers) |->
                 IF i = 1 THEN FirstTransposedRow(headers, rows)
                 ELSE TransposedRow(headers, rows, i)]]

\* Variant: a table with fewer rows than columns is transposed however few
\* columns it has.
fix_table_orientation_AnyWidth(headers, rows) ==
    IF rows = << >> \/ Len(rows) >= Len(headers)
    THEN [headers |-> headers, rows |-> rows]
    ELSE Transposed(headers, rows)

\* Variant: the transposed table keeps the headers it was given.
fix_table_orientation_KeepHeaders(headers, rows) ==
    IF rows = << >>
       \/ Len(headers) <= TransposeMinCols
       \/ Len(rows) >= Len(headers)
    THEN [headers |-> headers, rows |-> rows]
    ELSE [Transposed(headers, rows) EXCEPT !.headers = headers]

\* ElementExtractor.fix_table_orientation; no statement of its try raises
\* on lists of strings, so it always returns
fix_table_orientation(headers, rows) ==
    IF rows = << >>
       \/ Len(headers) <= TransposeMinCols
       \/ Len(rows) >= Len(headers)
    THEN [headers |-> headers, rows |-> rows]
    ELSE Transposed(headers, rows)

\* the element parse_response makes of one descriptor
ParseElement(elem) ==
    CASE elem.type = "heading" ->
            TextElement(elem.content, Some(elem.level), FALSE)
      [] elem.type = "paragraph" -> TextElement(elem.content, None, FALSE)
      [] elem.type = "list_item" -> TextElement(elem.content, None, TRUE)
      [] elem.type = "table" ->
            LET fixed == fix_table_orientation(elem.headers, elem.rows)
            IN TableElement(fixed.headers, fixed.rows)
      [] elem.type = "image" -> ImageElement(elem.id, Some(elem.caption))

\* ElementExtractor.parse_response({"elements": dicts})
parse_response(dicts) == [i \in 1..Len(dicts) |-> ParseElement(dicts[i])]

\* MistralOCR._process_api_response(text_content)
process_api_response(text_content) ==
    LET r == extract_elements_from_text(text_content)
        element_dicts == IF r.val = << >>
                         THEN <<Paragraph(text_content)>>
                         ELSE r.val
    IN IF r.ok
       THEN Returns(parse_response(element_dicts))
       ELSE Raises(Exception("OCRTextExtractionError",
                             "Failed to process API response", StrOf(r.err)))

\* the table of an extractor at rest
NoTable == TableDescriptor(<< >>, << >>)

(***************************************************************************)
(* Inputs of the renderer.                                                 *)
(***************************************************************************)
SeqsUpTo(S, n) == UNION {[1..k -> S] : k \in 0..n}

\* tests/test_renderer.py, test_render_complete_document
GoldenElements ==
    << TextElement(<<"Sample", Blank, "Document">>, Some(1), FALSE),
       TextElement(<<"This", Blank, "is", Blank, "a", Blank, "sample", Blank,
                     "paragraph.">>, None, FALSE),
       TextElement(<<"First", Blank, "item">>, None, TRUE),
       TextElement(<<"Second", Blank, "item">>, None, TRUE),
       TableElement(<< <<"Column", Blank, "1">>, <<"Column", Blank, "2">> >>,
                    << << <<"Data", Blank, "1">>, <<"Data", Blank, "2">> >>,
                       << <<"Data", Blank, "3">>, <<"Data", Blank, "4">> >> >>),
       ImageElement(<<"img001">>, Some(<<"A", Blank, "sample", Blank, "image">>)) >>

GoldenMarkdown ==
    "# Sample Document\n\nThis is a sample paragraph.\n\n- First item\n\n- Second item\n\n| Column 1 | Column 2 |\n| --- | --- |\n| Data 1 | Data 2 |\n| Data 3 | Data 4 |\n\n![A sample image](images/img001.png)"

\* The elements documents are built of: well-formed ones, a text element with
\* empty content, one with a level out of range, a table without headers, a
\* table with a short row, an image without image_id.
ElemPool ==
    { TextElement(<<"T">>, Some(2), FALSE),
      TextElement(<<"P">>, None, FALSE),
      TextElement(<<"L">>, None, TRUE),
      TextElement(<< >>, None, FALSE),
      TextElement(<<"X">>, Some(7), TRUE),
      TableElement(<< <<"h">>, <<"k">> >>, << << <<"x">> >> >>),
      TableElement(<< >>, << << <<"x">> >> >>),
      ImageElement(<<"img">>, Some(<<"cap">>)),
      ImageElement(<< >>, None) }

DocInputs == SeqsUpTo(ElemPool, MaxElems) \cup {GoldenElements}

Levels == (MinHeadingLevel - LevelSlack)..(MaxHeadingLevel + LevelSlack)

TextContents == { << >>, <<"T">>, <<"#", Blank, "T">>, <<"-", Blank, "T">> }

TextInputs ==
    { TextElement(c, l, b) :
        c \in TextContents,
        l \in {None} \cup {Some(n) : n \in Levels},
        b \in BOOLEAN }

Cells == { <<"x">>, <<"a", "|", "b">> }

TableInputs ==
    { TableElement(h, r) :
        h \in SeqsUpTo({<<"h">>}, MaxHeaders),
        r \in SeqsUpTo(SeqsUpTo(Cells, MaxCells), MaxRows) }

ImageInputs ==
    { ImageElement(i, c) :
        i \in {<< >>, <<"img">>},
        c \in {None, Some(<< >>), Some(<<"cap">>)} }

NoDocument == Document("", << >>, None)
NoElement == TextElement(<< >>, None, FALSE)

RendererIdle ==
    /\ document = NoDocument
    /\ rendered = None
    /\ element = NoElement
    /\ elementResult = None

ProcessorIdle ==
    /\ fileState = << >>
    /\ cache = << >>
    /\ outFiles = << >>
    /\ ocrCalls = << >>
    /\ ocrDone = << >>
    /\ ops = 0
    /\ last = None
    /\ batch = None

(***************************************************************************)
(* config.py and models/settings.py: the loading of the settings.          *)
(*                                                                         *)
(* A config file is absent, malformed or present, and when present holds   *)
(* for each of the keys [mistral] api_key, [mistral] batch_size,           *)
(* [app] output_dir and [app] log_level an Optional string.                *)
(***************************************************************************)
UserDir == "home/.config/intake-document"      \* xdg_config_home() / app_name
SystemDirs == <<"etc/xdg/intake-document">>    \* xdg_config_dirs() / app_name

\* XDGPaths.config_dirs
config_dirs == <<UserDir>> \o SystemDirs

ConfigKeys == {"api_key", "batch_size", "output_dir", "log_level"}

\* what a config file holds
ConfigData(api_key, batch_size, output_dir, log_level) ==
    [api_key |-> api_key, batch_size |-> batch_size,
     output_dir |-> output_dir, log_level |-> log_level]

\* an init.cfg on disk
ConfigFile(state, api_key, batch_size, output_dir, log_level) ==
    [state |-> state, api_key |-> api_key, batch_size |-> batch_size,
     output_dir |-> output_dir, log_level |-> log_level]

AbsentFile == ConfigFile("absent", None, None, None, None)
MalformedFile == ConfigFile("malformed", None, None, None, None)

\* config_data before any file is read
EmptyConfigData == ConfigData(None, None, None, None)

\* user_config.exists() and user_config.is_file()
ConfigFileExists(files, dir) == files[dir].state # "absent"

\* Config._find_config_files: the user file, then the system files
find_config_files(files) ==
    SelectSeq(config_dirs, LAMBDA dir : ConfigFileExists(files, dir))

\* config_data[section][key] = value, for every key of the file
MergedInto(config_data, file) ==
    [k \in ConfigKeys |-> IF file[k] # None THEN file[k] ELSE config_data[k]]

\* the loop of _load_settings over config_files[i..]
RECURSIVE ReadConfigFiles(_, _, _, _)
ReadConfigFiles(files, found, i, config_data) ==
    IF i > Len(found) THEN Returns(config_data)
    ELSE IF files[found[i]].state = "malformed"
    THEN Raises(Exception("ConfigError",
                          "Error reading config file: " \o found[i]
                              \o "/init.cfg",
                          "File contains no section headers."))
    ELSE ReadConfigFiles(files, found, i + 1,
                         MergedInto(config_data, files[found[i]]))

\* the variable of the environment that overrides a key
EnvVarOf(k) ==
    CASE k = "api_key" -> "MISTRAL_API_KEY"
      [] k = "output_dir" -> "INTAKE_DOCUMENT_OUTPUT_DIR"
      [] k = "log_level" -> "INTAKE_DOCUMENT_LOG_LEVEL"

EnvKeys == {"api_key", "output_dir", "log_level"}

\* os.environ.get(name): None when the variable is not set
EnvGet(env, name) == env[name]

\* config_data with the non-empty variables of the environment written over
WithEnvironment(config_data, env) ==
    [k \in ConfigKeys |->
        IF k \in EnvKeys
           /\ EnvGet(env, EnvVarOf(k)) # None
           /\ EnvGet(env, EnvVarOf(k))[1] # ""
        THEN EnvGet(env, EnvVarOf(k))
        ELSE config_data[k]]

DefaultBatchSize == 5      \* settings.py:12
MinBatchSize == 1          \* settings.py:12, ge=1
MaxBatchSize == 20         \* settings.py:12, le=20
DefaultMaxRetries == 3     \* settings.py:13
DefaultTimeout == 60       \* settings.py:14
DefaultOutputDir == "./output"
DefaultLogLevel == "ERROR"

\* pydantic's reading of a string as an int
IntOf(str) ==
    CASE str = "10" -> 10
      [] str = "15" -> 15
      [] str = "50" -> 50

\* models.settings.Settings
Settings(api_key, batch_size, max_retries, timeout, output_dir, log_level) ==
    [mistral |-> [api_key |-> api_key, batch_size |-> batch_size,
                  max_retries |-> max_retries, timeout |-> timeout],
     app |-> [output_dir |-> output_dir, log_level |-> log_level]]

\* Settings.model_validate(config_data)
model_validate(config_data) ==
    LET batch_size == IF config_data.batch_size = None THEN DefaultBatchSize
                      ELSE IntOf(config_data.batch_size[1])
    IN IF batch_size < MinBatchSize \/ batch_size > MaxBatchSize
       THEN Raises(Exception("ConfigError", "Settings validation failed",
                             "Input should be less than or equal to 20"))
       ELSE Returns(Settings(
                config_data.api_key,
                batch_size,
                DefaultMaxRetries,
                DefaultTimeout,
                IF config_data.output_dir = None THEN DefaultOutputDir
                ELSE config_data.output_dir[1],
                IF config_data.log_level = None THEN DefaultLogLevel
                ELSE config_data.log_level[1]))

\* Variant: a variable of the environment is used only for a key that no
\* config file sets.
load_settings_FilesFirst(files, env) ==
    LET read == ReadConfigFiles(files, find_config_files(files), 1,
                                EmptyConfigData)
    IN IF ~read.ok THEN read
       ELSE model_validate(
                MergedInto(WithEnvironment(EmptyConfigData, env), read.val))

\* Config._load_settings
load_settings(files, env) ==
    LET read == ReadConfigFiles(files, find_config_files(files), 1,
                                EmptyConfigData)
    IN IF ~read.ok THEN read
       ELSE model_validate(WithEnvironment(read.val, env))

\* no config file, no variable of the environment
NoConfigFiles ==
    [dir \in {config_dirs[i] : i \in 1..Len(config_dirs)} |-> AbsentFile]
NoEnviron ==
    [name \in {EnvVarOf(k) : k \in EnvKeys} |-> None]

ConfigIdle ==
    /\ configFiles = NoConfigFiles
    /\ environ = NoEnviron
    /\ settings = None

(***************************************************************************)
(* The API client (ocr/api.py) and MistralOCR._extract_document_elements.  *)
(* The remote service is what client.chat.complete does: it answers with   *)
(* a content, answers without any choice, or raises with a message.        *)
(***************************************************************************)
Content(c) == [kind |-> "content", content |-> c, message |-> << >>]
NoChoices == [kind |-> "no_choices", content |-> << >>, message |-> << >>]
Failure(m) == [kind |-> "failure", content |-> << >>, message |-> m]

\* MistralAPI: self.client is None without an API key; the two replies are
\* what client.chat.complete does for the text and for the document request
MistralAPI(initialized, text_reply, document_reply) ==
    [initialized |-> initialized, text_reply |-> text_reply,
     document_reply |-> document_reply]

\* the dictionary _prepare_document returns
FileInfo(file_path, extracted_text) ==
    [file_path |-> file_path, extracted_text |-> extracted_text]

\* the except clause of both request methods: the error is classified by the
\* words of its lower-cased message
ClassifyError(message) ==
    LET error_msg == LowerText(message)
        Has(word) == Contains(error_msg, word)
        detail == Flatten(message)
    IN  IF Has(<<"connection">>) \/ Has(<<"network">>)
        THEN Exception("APIConnectionError",
                       "Failed to connect to Mistral API", detail)
        ELSE IF Has(<<"auth">>) \/ Has(<<"key">>) \/ Has(<<"unauthorized">>)
        THEN Exception("APIAuthenticationError",
                       "Authentication failed with Mistral API", detail)
        ELSE IF Has(<<"quota">>) \/ Has(<<"limit">>) \/ Has(<<"exceeded">>)
        THEN Exception("APIQuotaError", "Mistral API quota exceeded", detail)
        ELSE IF Has(<<"timeout">>) \/ Has(<<"timed", Blank, "out">>)
        THEN Exception("APITimeoutError",
                       "Mistral API request timed out", detail)
        ELSE Exception("APIResponseError", "Mistral API request failed", detail)

\* MistralAPI.validate_api_key, the exception it raises
ApiKeyMissing ==
    Exception("APIAuthenticationError", "Mistral client not initialized",
              "Set MISTRAL_API_KEY environment variable or configure it in the config file.")

\* an outcome of a request method, and whether client.chat.complete was called
Answer(result, sent) == [result |-> result, sent |-> sent]

\* MistralAPI.send_text_ocr_request: the response dictionary is the Optional
\* of its content
send_text_ocr_request(self_api, extracted_text) ==
    IF extracted_text = << >> \/ CharLen(extracted_text) < MinTextLength
    THEN Answer(Returns(None), FALSE)
    ELSE IF ~self_api.initialized
    THEN Answer(Raises(ApiKeyMissing), FALSE)
    ELSE IF self_api.text_reply.kind = "content"
    THEN Answer(Returns(Some(self_api.text_reply.content)), TRUE)
    ELSE IF self_api.text_reply.kind = "no_choices"
    THEN Answer(Returns(None), TRUE)
    ELSE Answer(Raises(ClassifyError(self_api.text_reply.message)), TRUE)

\* MistralAPI.send_document_ocr_request: the APIResponseError of an answer
\* without choices is raised inside the try block and classified like any
\* other error
send_document_ocr_request(self_api) ==
    IF ~self_api.initialized
    THEN Answer(Raises(ApiKeyMissing), FALSE)
    ELSE IF self_api.document_reply.kind = "content"
    THEN Answer(Returns(Some(self_api.document_reply.content)), TRUE)
    ELSE IF self_api.document_reply.kind = "no_choices"
    THEN Answer(Raises(ClassifyError(
             <<"Empty", Blank, "response", Blank, "from", Blank, "API">>)), TRUE)
    ELSE Answer(Raises(ClassifyError(self_api.document_reply.message)), TRUE)

\* one entry of the log of request methods called
Request(kind, answer) == [kind |-> kind, sent |-> answer.sent]

\* the elements of a parsed response; None when parsing raised, which the
\* except clause of the text path turns into the fall-back
ElementsOrFallBack(parsed) == IF parsed.ok THEN Some(parsed) ELSE None

\* what the text path makes of the answer to its request
TextOutcome(answer) ==
    IF answer.result.ok /\ answer.result.val # None
    THEN ElementsOrFallBack(process_api_response(answer.result.val[1]))
    ELSE None

\* the text path of _extract_document_elements: the elements it returns, or
\* None when it falls through to the full-document request
TextPath(self_api, extracted_text) ==
    TextOutcome(send_text_ocr_request(self_api, extracted_text))

\* the except clause of the full-document path
OcrFailure(file_path, e) ==
    Raises(Exception("OCRError",
                     "Failed to extract document elements from " \o file_path,
                     StrOf(e)))

\* the elements of a parsed response, or the OCRError for its failure
ElementsOrOcrFailure(parsed, file_path) ==
    IF parsed.ok THEN parsed ELSE OcrFailure(file_path, parsed.err)

\* what the full-document path makes of the answer to its request
DocumentOutcome(answer, file_path) ==
    IF answer.result.ok
    THEN ElementsOrOcrFailure(process_api_response(answer.result.val[1]),
                              file_path)
    ELSE OcrFailure(file_path, answer.result.err)

\* the full-document path of _extract_document_elements
DocumentPath(self_api, file_path) ==
    DocumentOutcome(send_document_ocr_request(self_api), file_path)

\* `if extracted_text:`
HasText(info) ==
    info.extracted_text # None /\ info.extracted_text[1] # << >>

\* the fall-back, after the request methods named in before were called
FallBack(info, self_api, before) ==
    [outcome |-> DocumentPath(self_api, info.file_path),
     requests |-> before \o <<Request("document",
                                      send_document_ocr_request(self_api))>>]

\* the return of the text path, or the fall-back when it has no elements
ReturnOrFallBack(info, self_api, text_request, text_path) ==
    IF text_path # None
    THEN [outcome |-> text_path[1], requests |-> <<text_request>>]
    ELSE FallBack(info, self_api, <<text_request>>)

\* the same with an error of the text request propagating to the caller
extract_document_elements_TextErrorRaised(info, self_api) ==
    IF HasText(info)
    THEN IF ~send_text_ocr_request(self_api, info.extracted_text[1]).result.ok
         THEN [outcome |->
                  send_text_ocr_request(self_api, info.extracted_text[1]).result,
               requests |-> <<Request("text",
                  send_text_ocr_request(self_api, info.extracted_text[1]))>>]
         ELSE ReturnOrFallBack(info, self_api,
                  Request("text",
                      send_text_ocr_request(self_api, info.extracted_text[1])),
                  TextPath(self_api, info.extracted_text[1]))
    ELSE FallBack(info, self_api, << >>)

\* MistralOCR._extract_document_elements(file_info): its outcome and the
\* request methods it called, in order
extract_document_elements(info, self_api) ==
    IF HasText(info)
    THEN ReturnOrFallBack(info, self_api,
             Request("text",
                 send_text_ocr_request(self_api, info.extracted_text[1])),
             TextPath(self_api, info.extracted_text[1]))
    ELSE FallBack(info, self_api, << >>)

\* no file handed to the OCR client
NoFileInfo == FileInfo("", None)
NoApi == MistralAPI(FALSE, NoChoices, NoChoices)

RequestIdle ==
    /\ file_info = NoFileInfo
    /\ api = NoApi
    /\ requests = << >>
    /\ outcome = None

ExtractorIdle ==
    /\ text = << >>
    /\ extracted = None
    /\ apiResult = None
    /\ table = NoTable
    /\ oriented = None

(***************************************************************************)
(* SpecRender: render_markdown applied to a document.                      *)
(***************************************************************************)
InitRender ==
    /\ document \in {Document("abc123def456", es, None) : es \in DocInputs}
    /\ rendered = None
    /\ element = NoElement
    /\ elementResult = None
    /\ ProcessorIdle
    /\ ExtractorIdle
    /\ ConfigIdle
    /\ RequestIdle

\* renderer.render_markdown(document): the document object itself is updated
RenderMarkdown ==
    /\ rendered = None
    /\ LET r == render_markdown(document)
       IN /\ rendered' = Some([input |-> document, ok |-> r.ok])
          /\ document' = IF r.ok THEN r.val ELSE document
    /\ UNCHANGED <<element, elementResult>>
    /\ UNCHANGED processorVars
    /\ UNCHANGED extractorVars
    /\ UNCHANGED configVars
    /\ UNCHANGED requestVars

NextRender == RenderMarkdown

SpecRender == InitRender /\ [][NextRender]_vars

(***************************************************************************)
(* SpecElement: one _render_*_element method applied to one element.       *)
(***************************************************************************)
InitElement ==
    /\ element \in TextInputs \cup TableInputs \cup ImageInputs
    /\ elementResult = None
    /\ document = NoDocument
    /\ rendered = None
    /\ ProcessorIdle
    /\ ExtractorIdle
    /\ ConfigIdle
    /\ RequestIdle

RenderTextElement ==
    /\ elementResult = None
    /\ element.element_type = "text"
    /\ elementResult' = Some([input |-> element,
                              result |-> Returns(render_text_element(element))])
    /\ UNCHANGED <<element, document, rendered>>
    /\ UNCHANGED processorVars
    /\ UNCHANGED extractorVars
    /\ UNCHANGED configVars
    /\ UNCHANGED requestVars

RenderTableElement ==
    /\ elementResult = None
    /\ element.element_type = "table"
    /\ elementResult' = Some([input |-> element,
                              result |-> render_table_element(element)])
    /\ element' = ElementAfterRender(element)
    /\ UNCHANGED <<document, rendered>>
    /\ UNCHANGED processorVars
    /\ UNCHANGED extractorVars
    /\ UNCHANGED configVars
    /\ UNCHANGED requestVars

RenderImageElement ==
    /\ elementResult = None
    /\ element.element_type = "image"
    /\ elementResult' = Some([input |-> element,
                              result |-> render_image_element(element)])
    /\ UNCHANGED <<element, document, rendered>>
    /\ UNCHANGED processorVars
    /\ UNCHANGED extractorVars
    /\ UNCHANGED configVars
    /\ UNCHANGED requestVars

NextElement == RenderTextElement \/ RenderTableElement \/ RenderImageElement

SpecElement == InitElement /\ [][NextElement]_vars

(***************************************************************************)
(* Claims about the renderer.                                              *)
(***************************************************************************)
RenderedInput == rendered[1].input.elements
RenderedMarkdown == document.markdown[1]

\* What each element is expected to leave in the markdown: its rendering, or
\* the error comment when its rendering raises
Pieces(elements) ==
    [i \in 1..Len(elements) |->
        LET r == RenderElement(elements[i])
        IN IF r.ok THEN r.val ELSE ErrorComment(r.err)]

RendersNonEmpty(e) == RenderElement(e).ok /\ RenderElement(e).val # << >>

IsPrefix(p, s) == Len(p) <= Len(s) /\ SubSeq(s, 1, Len(p)) = p

RECURSIVE DropNewlines(_)
DropNewlines(s) ==
    IF s # << >> /\ Head(s) = NL THEN DropNewlines(Tail(s)) ELSE s

\* md holds the pieces in order, with nothing but newlines around them
RECURSIVE InOrder(_, _)
InOrder(md, pieces) ==
    LET rest == DropNewlines(md)
    IN IF pieces = << >> THEN rest = << >>
       ELSE /\ IsPrefix(pieces[1], rest)
            /\ InOrder(SubSeq(rest, Len(pieces[1]) + 1, Len(rest)), Tail(pieces))

\* C5: when every element renders without error to a non-empty string, the
\* markdown is the renderings in element order joined by "\n\n", nothing
\* before the first and nothing after the last; the six-element fixture of
\* test_render_complete_document gives the literal golden string.
C5_JoinedByBlankLine ==
    (rendered # None /\ \A i \in 1..Len(RenderedInput) :
                            RendersNonEmpty(RenderedInput[i]))
    => /\ rendered[1].ok
       /\ RenderedMarkdown = Join(<<NL, NL>>, Pieces(RenderedInput))
       /\ RenderedInput = GoldenElements
            => Flatten(RenderedMarkdown) = GoldenMarkdown

C5_Witness ==
    /\ rendered # None
    /\ RenderedInput = GoldenElements
    /\ Flatten(RenderedMarkdown) = GoldenMarkdown

\* C6: for every element sequence, empty text elements and failing elements
\* included, what consecutive elements leave in the markdown is separated by
\* exactly "\n\n", and the markdown neither starts nor ends with a newline.
C6_OneBlankLineNoEdges ==
    rendered # None
    => /\ RenderedMarkdown = Join(<<NL, NL>>, Pieces(RenderedInput))
       /\ RenderedMarkdown # << >>
            => /\ Head(RenderedMarkdown) # NL
               /\ RenderedMarkdown[Len(RenderedMarkdown)] # NL

\* C7: render_markdown does not fail because one element fails: the failing
\* element leaves the comment <!-- Error rendering element: ... --> and every
\* element, the ones after it included, is rendered in order.
C7_FailedElementBecomesComment ==
    rendered # None
    => /\ rendered[1].ok
       /\ InOrder(RenderedMarkdown, Pieces(RenderedInput))

C7_Witness ==
    /\ rendered # None
    /\ \E i \in 1..(Len(RenderedInput) - 1) :
          /\ ~RenderElement(RenderedInput[i]).ok
          /\ RendersNonEmpty(RenderedInput[i + 1])

ElementInput == elementResult[1].input
ElementOutcome == elementResult[1].result

\* the lines of a text, split at "\n"
RECURSIVE Lines(_, _)
Lines(s, current) ==
    IF s = << >> THEN <<current>>
    ELSE IF Head(s) = NL THEN <<current>> \o Lines(Tail(s), << >>)
    ELSE Lines(Tail(s), Append(current, Head(s)))

\* the cells of a table line: one more than its inner unescaped pipes
CellCount(line) ==
    Cardinality({i \in 1..Len(line) :
                    line[i] = "|" /\ (i = 1 \/ line[i - 1] # "\\")}) - 1

\* C8: a table with headers renders without raising whatever the width of
\* its rows, and every rendered data row has exactly len(headers) cells.
C8_RowsRepaired ==
    (elementResult # None /\ ElementInput.element_type = "table"
     /\ ElementInput.headers # << >>)
    => /\ ElementOutcome.ok
       /\ LET lines == Lines(ElementOutcome.val, << >>)
          IN /\ Len(lines) = 2 + Len(ElementInput.rows)
             /\ \A i \in 3..Len(lines) :
                   CellCount(lines[i]) = Len(ElementInput.headers)

LevelInRange(e) ==
    e.level # None /\ e.level[1] >= MinHeadingLevel /\ e.level[1] <= MaxHeadingLevel

HeadingText(e) == Repeat(<<"#">>, e.level[1]) \o <<Blank>> \o e.content

\* C9: the three-way rule, for every text element with non-empty content:
\* level set and within [1,6] gives the heading; otherwise is_list_item
\* gives "- " and the content; otherwise the content verbatim.
C9_ThreeWayRule ==
    (elementResult # None /\ ElementInput.element_type = "text"
     /\ ElementInput.content # << >>)
    => /\ ElementOutcome.ok
       /\ ElementOutcome.val =
            IF LevelInRange(ElementInput) THEN HeadingText(ElementInput)
            ELSE IF ElementInput.is_list_item
                 THEN <<"-", Blank>> \o ElementInput.content
            ELSE ElementInput.content

\* C9 as amended: a level that is set but outside [1,6] gives the content
\* verbatim whether or not is_list_item is set; the list-item rule applies
\* only when no level is set.
C9_LevelSetOverridesListItem ==
    (elementResult # None /\ ElementInput.element_type = "text"
     /\ ElementInput.content # << >>)
    => /\ ElementOutcome.ok
       /\ ElementOutcome.val =
            IF LevelInRange(ElementInput) THEN HeadingText(ElementInput)
            ELSE IF ElementInput.level = None /\ ElementInput.is_list_item
                 THEN <<"-", Blank>> \o ElementInput.content
            ELSE ElementInput.content

C9_Witness ==
    /\ elementResult # None
    /\ ElementInput.element_type = "text"
    /\ ElementInput.content = <<"T">>
    /\ ElementInput.level = Some(MaxHeadingLevel + 1)
    /\ ElementInput.is_list_item
    /\ Flatten(ElementOutcome.val) = "T"

\* C10: a text element whose level is set outside [1,6] renders without
\* raising, and the output is its content with no '#' prefix added.
C10_OutOfRangeLevelIsPlain ==
    (elementResult # None /\ ElementInput.element_type = "text"
     /\ ElementInput.level # None /\ ~LevelInRange(ElementInput))
    => /\ ElementOutcome.ok
       /\ ElementOutcome.val = ElementInput.content

C10_Witness ==
    /\ elementResult # None
    /\ ElementInput.element_type = "text"
    /\ ElementInput.level = Some(MaxHeadingLevel + 1)
    /\ ElementInput.content = <<"T">>
    /\ ElementOutcome.val = <<"T">>

(***************************************************************************)
(* Spec: calls of process_file and process_directory on one                *)
(* DocumentProcessor.  The processor is single-threaded: while a           *)
(* process_directory call is in its loop, nothing else runs.               *)
(***************************************************************************)
Init ==
    /\ fileState \in [Paths -> FileStates]
    /\ fileState["docs/n.txt"] = "c1"
    /\ fileState["docs/a.pdf"] # "c2"
    /\ cache = << >>
    /\ outFiles = << >>
    /\ ocrCalls = << >>
    /\ ocrDone = << >>
    /\ ops = 0
    /\ last = None
    /\ batch = None
    /\ RendererIdle
    /\ ExtractorIdle
    /\ ConfigIdle
    /\ RequestIdle

BatchRunning == batch # None /\ batch[1].status = "running"

\* what `last` keeps of a process_file call
Record(out, env) ==
    [path |-> out.path, result |-> out.result, checksum |-> out.checksum,
     cacheHit |-> out.cacheHit, ocrInvoked |-> out.ocrInvoked,
     renderInvoked |-> out.renderInvoked, wroteTo |-> out.wroteTo,
     write |-> env.write]

Apply(out, env) ==
    /\ cache' = out.st.cache
    /\ outFiles' = out.st.outFiles
    /\ ocrCalls' = out.st.ocrCalls
    /\ ocrDone' = out.st.ocrDone
    /\ last' = Some(Record(out, env))

\* processor.process_file(file_path)
ProcessFile(p, env) ==
    /\ ~BatchRunning
    /\ ops < MaxOps
    /\ Apply(process_file(ProcState, fileState, p, env), env)
    /\ ops' = ops + 1
    /\ UNCHANGED <<fileState, batch>>
    /\ UNCHANGED rendererVars
    /\ UNCHANGED extractorVars
    /\ UNCHANGED configVars
    /\ UNCHANGED requestVars

\* processor.process_directory(dir_path), up to the first pass of its loop
ProcessDirectory(dir, listOk) ==
    /\ ~BatchRunning
    /\ ops < MaxOps
    /\ batch' = Some(ReturnWhenExhausted(
                        process_directory_start(fileState, dir, listOk)))
    /\ ops' = ops + 1
    /\ UNCHANGED <<fileState, cache, outFiles, ocrCalls, ocrDone, last>>
    /\ UNCHANGED rendererVars
    /\ UNCHANGED extractorVars
    /\ UNCHANGED configVars
    /\ UNCHANGED requestVars

\* one pass of the loop of process_directory, and its return after the last
ProcessDirectoryStep(p, env) ==
    /\ BatchRunning
    /\ p \in batch[1].remaining
    /\ LET out == process_file(ProcState, fileState, p, env)
       IN /\ batch' = Some(process_directory_step(batch[1], out, fileState, p))
          /\ IF HandsToProcessFile(fileState, p)
             THEN Apply(out, env)
             ELSE UNCHANGED <<cache, outFiles, ocrCalls, ocrDone, last>>
    /\ UNCHANGED <<fileState, ops>>
    /\ UNCHANGED rendererVars
    /\ UNCHANGED extractorVars
    /\ UNCHANGED configVars
    /\ UNCHANGED requestVars

Next ==
    \/ \E p \in Paths, env \in Envs : ProcessFile(p, env)
    \/ \E dir \in DirArgs, listOk \in BOOLEAN : ProcessDirectory(dir, listOk)
    \/ \E p \in Paths \cup {SubDir}, env \in Envs : ProcessDirectoryStep(p, env)

Spec == Init /\ [][Next]_vars

(***************************************************************************)
(* Claims about the processor.                                             *)
(***************************************************************************)
\* C1: in any sequence of calls, the OCR client is invoked at most once for
\* each distinct checksum.
C1_AtMostOneOcrPerChecksum ==
    \A c \in DOMAIN ocrCalls : ocrCalls[c] <= 1

\* C1 as amended: OCR and render complete at most once for each checksum,
\* and once a checksum's Document is in the cache no call invokes the OCR
\* client for it again: a later call for that checksum takes the cached
\* Document.  (A call that follows a failed attempt invokes OCR again.)
C1_NoOcrOnceCached ==
    /\ [](\A c \in DOMAIN ocrDone : ocrDone[c] <= 1)
    /\ [][\A c \in DOMAIN cache :
            /\ Count(ocrCalls', c) = Count(ocrCalls, c)
            /\ c \in DOMAIN cache' /\ cache'[c] = cache[c]
            /\ (last' # last /\ last'[1].checksum = Some(c)) => last'[1].cacheHit]_vars

C1_Witness ==
    /\ last # None
    /\ last[1].cacheHit
    /\ last[1].result.ok
    /\ ocrCalls[last[1].checksum[1]] = 1

\* C2: a call that finds the checksum in the cache makes no OCR call and no
\* render, writes the cached Document's markdown to the output path derived
\* from the path it was called with, and returns that path.
C2_CacheHitWritesAndReturns ==
    (last # None /\ last[1].cacheHit)
    => LET l == last[1]
           out == get_output_path(l.path)
       IN /\ l.result.ok
          /\ l.result.val = out
          /\ out \in DOMAIN outFiles
          /\ outFiles[out] = cache[l.checksum[1]].markdown[1]

\* a step in which a call found its checksum in the cache
HitStep ==
    /\ last' # None
    /\ last'[1].cacheHit
    /\ ops' # ops \/ batch' # batch

\* C2 as amended: such a call makes no OCR call and no render and leaves
\* the cache as it is; unless writing the output file fails it writes the
\* cached markdown to the output path derived from the path it was called
\* with and returns that path; when the write fails it raises DocumentError.
C2_CacheHitWritesUnlessWriteFails ==
    [][HitStep =>
        LET l == last'[1]
            out == get_output_path(l.path)
        IN /\ ocrCalls' = ocrCalls
           /\ ocrDone' = ocrDone
           /\ cache' = cache
           /\ l.checksum[1] = fileState[l.path]
           /\ IF l.write = "ok"
              THEN /\ l.result.ok
                   /\ l.result.val = out
                   /\ out \in DOMAIN outFiles'
                   /\ outFiles'[out] = cache[l.checksum[1]].markdown[1]
              ELSE /\ ~l.result.ok
                   /\ l.result.err.kind = "DocumentError"
                   /\ outFiles' = outFiles]_vars

\* a cache hit for a file other than the one that filled the cache, whose
\* output did not exist before
C2_Witness ==
    /\ last # None
    /\ last[1].cacheHit
    /\ last[1].result.ok
    /\ last[1].path = "docs/a.PNG"
    /\ outFiles[get_output_path("docs/a.PNG")] # << >>
    /\ ocrCalls[last[1].checksum[1]] = 1

RECURSIVE OutputsOfSucceeded(_, _)
OutputsOfSucceeded(handed, succeeded) ==
    IF handed = << >> THEN << >>
    ELSE (IF Head(succeeded) THEN <<get_output_path(Head(handed))>> ELSE << >>)
         \o OutputsOfSucceeded(Tail(handed), Tail(succeeded))

\* C3: process_directory never aborts the batch because of one file: every
\* unsupported child file is skipped, every supported one is handed to
\* process_file exactly once whatever happened to the files before it, and
\* the returned list holds exactly the output paths of the files that
\* succeeded.
C3_BatchNeverAborts ==
    batch # None
    => LET b == batch[1]
           files == {p \in Children(fileState) : IsFile(fileState, p)}
           supported == {p \in files : get_document_type(p) # None}
       IN /\ b.status = "raised" => b.listing = << >>
          /\ \A i, j \in 1..Len(b.handed) : b.handed[i] = b.handed[j] => i = j
          /\ {b.handed[i] : i \in 1..Len(b.handed)} \subseteq supported
          /\ b.status = "returned"
               => /\ {b.handed[i] : i \in 1..Len(b.handed)} = supported
                  /\ b.stats.skipped = Cardinality(files \ supported)
                  /\ b.result[1].ok
                  /\ b.result[1].val = OutputsOfSucceeded(b.handed, b.succeeded)

C3_Witness ==
    /\ batch # None
    /\ batch[1].status = "returned"
    /\ batch[1].stats.skipped = 1
    /\ batch[1].succeeded = <<FALSE, TRUE>>
    /\ Len(batch[1].result[1].val) = 1

Unsupported(p) == get_document_type(p) = None

\* C4: process_file reports a missing file, an unsupported type and an
\* unreadable file as three distinct error kinds, every other failure as
\* DocumentError with the original message as detail, and nothing else.
C4_ThreeDistinctKinds ==
    (last # None /\ ~last[1].result.ok)
    => LET l == last[1]
           k == l.result.err.kind
           state == fileState[l.path]
       IN /\ k = "FileNotFoundError" <=> state = "missing"
          /\ k = "FileTypeError" <=> (state # "missing" /\ Unsupported(l.path))
          /\ (state = "unreadable" /\ ~Unsupported(l.path))
               => k \notin {"FileNotFoundError", "FileTypeError", "DocumentError"}
          /\ (state \in Contents /\ ~Unsupported(l.path))
               => (k = "DocumentError" /\ l.result.err.detail = StrOf(l.result.cause))

\* C4 as amended: a missing file and an unsupported type are two distinct
\* error kinds; every other failure, an unreadable file included, is the
\* generic DocumentError carrying the original message as detail; no other
\* error kind reaches the caller.
C4_TwoKindsAndDocumentError ==
    (last # None /\ ~last[1].result.ok)
    => LET l == last[1]
           k == l.result.err.kind
           state == fileState[l.path]
       IN /\ k \in {"FileNotFoundError", "FileTypeError", "DocumentError"}
          /\ k = "FileNotFoundError" <=> state = "missing"
          /\ k = "FileTypeError" <=> (state # "missing" /\ Unsupported(l.path))
          /\ k = "DocumentError"
               => /\ l.result.err.detail = StrOf(l.result.cause)
                  /\ l.result.cause.kind \in {"FileError", "OCRError", "DocumentError"}
          /\ (state = "unreadable" /\ ~Unsupported(l.path))
               => (k = "DocumentError" /\ l.result.cause.kind = "FileError")

C4_Witness ==
    /\ last # None
    /\ ~last[1].result.ok
    /\ fileState[last[1].path] = "unreadable"
    /\ last[1].result.err.kind = "DocumentError"
    /\ last[1].result.cause.kind = "FileError"
    /\ last[1].result.err.detail
         = "Failed to calculate checksum for docs/a.pdf: Permission denied"

(***************************************************************************)
(* Inputs of the extractor.                                                *)
(***************************************************************************)
HeaderLine == <<"|", Blank, "a", Blank, "|", Blank, "b", Blank, "|">>
SeparatorLine == <<"|", "---", "|", "---", "|">>
RefusalLine ==
    <<Blank, "Unable", Blank, "to", Blank, "process", Blank, "FILE">>
\* a line of blanks, just long enough to pass the length test
WhitespaceLine == [i \in 1..MinTextLength |-> Blank]

\* The lines raw texts are built of: an empty line, a heading, the two kinds
\* of list item, a table header, a separator, a row shorter and a row longer
\* than the header, an image, an image whose url starts with "./", plain
\* text of exactly ten characters, a refusal with a blank before it, a word
\* of two characters, and a line of nothing but blanks.
LinePool ==
    { << >>,
      <<"#", Blank, "Title">>,
      <<"-", Blank, "item">>,
      <<"1.", Blank, "item">>,
      HeaderLine,
      SeparatorLine,
      <<"|", Blank, "1", Blank, "|">>,
      <<"|", "1", "|", "2", "|", "3", "|">>,
      <<"![", "cap", "](", "img", "/", "p1", ".", "png", ")">>,
      <<"![", "cap", "](", ".", "/", "img", "/", "p1", ".", "png", ")">>,
      <<"plain", Blank, "text">>,
      RefusalLine,
      <<"ok">>,
      WhitespaceLine }

\* the raw texts: up to MaxLines lines joined by newlines
RawTexts ==
    {<< >>} \cup {Join(<<NL>>, ls) : ls \in SeqsUpTo(LinePool, MaxLines) \ {<< >>}}

\* Tables as the extractor accumulates them: every row as wide as the
\* headers.  Header c is "h c", cell c of row r is "x r c".
GridTable(cols, rows) ==
    TableDescriptor([c \in 1..cols |-> <<"h", ToString(c)>>],
                    [r \in 1..rows |->
                        [c \in 1..cols |-> <<"x", ToString(r), ToString(c)>>]])

TableShapes ==
    {NoTable} \cup
    {GridTable(cols, rows) : cols \in 1..MaxOrientCols, rows \in 0..MaxOrientRows}

(***************************************************************************)
(* SpecExtract: extract_elements_from_text, or its caller                  *)
(* _process_api_response, applied to a raw text.                           *)
(***************************************************************************)
InitExtract ==
    /\ text \in RawTexts
    /\ extracted = None
    /\ apiResult = None
    /\ table = NoTable
    /\ oriented = None
    /\ RendererIdle
    /\ ProcessorIdle
    /\ ConfigIdle
    /\ RequestIdle

\* extractor.extract_elements_from_text(text)
ExtractElementsFromText ==
    /\ extracted = None
    /\ apiResult = None
    /\ extracted' = Some(extract_elements_from_text(text))
    /\ UNCHANGED <<text, apiResult, table, oriented>>
    /\ UNCHANGED rendererVars
    /\ UNCHANGED processorVars
    /\ UNCHANGED configVars
    /\ UNCHANGED requestVars

\* ocr._process_api_response(text)
ProcessApiResponse ==
    /\ extracted = None
    /\ apiResult = None
    /\ apiResult' = Some(process_api_response(text))
    /\ UNCHANGED <<text, extracted, table, oriented>>
    /\ UNCHANGED rendererVars
    /\ UNCHANGED processorVars
    /\ UNCHANGED configVars
    /\ UNCHANGED requestVars

NextExtract == ExtractElementsFromText \/ ProcessApiResponse

SpecExtract == InitExtract /\ [][NextExtract]_vars

(***************************************************************************)
(* SpecOrient: fix_table_orientation applied to a table.                   *)
(***************************************************************************)
InitOrient ==
    /\ table \in TableShapes
    /\ oriented = None
    /\ text = << >>
    /\ extracted = None
    /\ apiResult = None
    /\ RendererIdle
    /\ ProcessorIdle
    /\ ConfigIdle
    /\ RequestIdle

\* extractor.fix_table_orientation(headers, rows)
FixTableOrientation ==
    /\ oriented = None
    /\ oriented' = Some(fix_table_orientation(table.headers, table.rows))
    /\ UNCHANGED <<table, text, extracted, apiResult>>
    /\ UNCHANGED rendererVars
    /\ UNCHANGED processorVars
    /\ UNCHANGED configVars
    /\ UNCHANGED requestVars

NextOrient == FixTableOrientation

SpecOrient == InitOrient /\ [][NextOrient]_vars

(***************************************************************************)
(* Claims about the extractor.                                             *)
(***************************************************************************)
TextLines == Split(text, NL)

\* the text goes through _process_lines: it is long enough, and neither a
\* single line without markdown characters nor a refusal
Scanned ==
    /\ CharLen(text) >= 10
    /\ ~(Len(TextLines) = 1 /\ ~HasMarkdownChar(text))
    /\ ~IsRefusal(text)

\* the locals of _process_lines when its loop reaches line i
BeforeLine(i) == AfterLines(SubSeq(TextLines, 1, i - 1))

\* line i comes to the table rule while a table is open, and is no table row
EndsTable(i) ==
    LET line == Strip(TextLines[i])
    IN /\ BeforeLine(i).in_table
       /\ line # << >>
       /\ ~HeadingMatch(line)
       /\ ~ListItemMatch(line)
       /\ ~TableRowMatch(line)

\* C11: when a table is open and the current line is no table row, the
\* extractor emits a table descriptor with the headers and rows accumulated
\* so far, clears the table state, and classifies that same line as an image
\* or as paragraph text, so that the returned elements hold the table.
C11_TableEndEmitsTableAndKeepsLine ==
    (extracted # None /\ Scanned)
    => \A i \in 1..Len(TextLines) :
          EndsTable(i)
          => LET before == BeforeLine(i)
                 after == process_line(before, TextLines[i])
                 line == Strip(TextLines[i])
                 tbl == TableDescriptor(before.table_headers,
                                        before.table_rows)
                 emitted == Append(before.elements, tbl)
             IN /\ ~after.in_table
                /\ after.table_headers = << >>
                /\ after.table_rows = << >>
                /\ IF ImageMatch(line)
                   THEN /\ after.elements = Append(emitted, ImageOf(line))
                        /\ after.current_text = << >>
                   ELSE /\ after.elements = emitted
                        /\ after.current_text = line
                /\ extracted[1].ok
                /\ \E k \in 1..Len(extracted[1].val) : extracted[1].val[k] = tbl

\* C12: at the end of the input the extractor flushes the pending paragraph
\* and emits the table that is still open, whether or not it has a data row.
C12_OpenTableEmittedAtEnd ==
    (extracted # None /\ Scanned)
    => LET st == AfterLines(TextLines)
           flushed == Flushed(st.elements, st.current_text)
       IN IF st.in_table
          THEN extracted[1] =
                  Returns(Append(flushed,
                                 TableDescriptor(st.table_headers,
                                                 st.table_rows)))
          ELSE flushed # << >> => extracted[1] = Returns(flushed)

\* the paragraph of a refusal: "# " and the trimmed text
MarkedRefusal == <<Paragraph(<<"#", Blank>> \o Strip(text))>>

\* C13 as stated: every text of at least ten characters that holds "unable
\* to", "process" and "file" comes back as the one paragraph "# " + trimmed
\* text.
C13_RefusalAlwaysMarked ==
    (extracted # None /\ CharLen(text) >= 10 /\ IsRefusal(text))
    => extracted[1] = Returns(MarkedRefusal)

\* C13: a text of at least ten characters that holds "unable to", "process"
\* and "file" comes back as exactly one paragraph: the trimmed text alone
\* when the text is a single line without any of the characters # | - *,
\* and "# " followed by the trimmed text otherwise.
C13_RefusalMarkedUnlessPlainLine ==
    (extracted # None /\ CharLen(text) >= 10 /\ IsRefusal(text))
    => IF Len(TextLines) = 1 /\ ~HasMarkdownChar(text)
       THEN extracted[1] = Returns(<<Paragraph(Strip(text))>>)
       ELSE extracted[1] = Returns(MarkedRefusal)

C13_Witness ==
    /\ extracted # None
    /\ CharLen(text) >= 10
    /\ IsRefusal(text)
    /\ Len(TextLines) > 1
    /\ Strip(text) # text
    /\ extracted[1] = Returns(MarkedRefusal)

\* C14: for every raw text shorter than ten characters, the empty text
\* included, extract_elements_from_text raises a text-extraction error and
\* returns no list.
C14_ShortTextRaises ==
    (extracted # None /\ CharLen(text) < 10)
    => /\ ~extracted[1].ok
       /\ extracted[1].err.kind = "OCRTextExtractionError"

C14_Witness ==
    /\ extracted # None
    /\ CharLen(text) = 9
    /\ ~extracted[1].ok

\* C15: when the text of the OCR response is shorter than ten characters,
\* _process_api_response returns the single paragraph element that holds the
\* raw text.
C15_ShortTextFallsBackToParagraph ==
    (apiResult # None /\ CharLen(text) < 10)
    => apiResult[1] = Returns(<<TextElement(text, None, FALSE)>>)

\* line i starts a table and line i + 1 is a separator line
HeaderThenSeparator(i) ==
    /\ i + 1 <= Len(TextLines)
    /\ ~BeforeLine(i).in_table
    /\ TableRowMatch(Strip(TextLines[i]))
    /\ TableRowMatch(Strip(TextLines[i + 1]))
    /\ IsSeparatorRow(CellsOf(Strip(TextLines[i + 1])))

\* C16: when a table header line is immediately followed by a separator
\* line, no table descriptor the extractor returns has the cells of that
\* separator line as one of its rows.
C16_SeparatorIsNoRow ==
    (extracted # None /\ extracted[1].ok)
    => \A i \in 1..Len(TextLines) :
          HeaderThenSeparator(i)
          => \A k \in 1..Len(extracted[1].val) :
                LET d == extracted[1].val[k]
                IN d.type = "table"
                   => \A r \in 1..Len(d.rows) :
                         d.rows[r] # FitRow(CellsOf(Strip(TextLines[i + 1])),
                                            Len(d.headers))

C16_Witness ==
    /\ extracted # None
    /\ extracted[1].ok
    /\ \E i \in 1..Len(TextLines) : HeaderThenSeparator(i)
    /\ \E k \in 1..Len(extracted[1].val) :
          /\ extracted[1].val[k].type = "table"
          /\ extracted[1].val[k].rows # << >>

NumCols == Len(table.headers)
NumRows == Len(table.rows)

\* C17: fix_table_orientation returns the headers and rows it was given for
\* every table with at most ten columns or with as many rows as columns.
C17_NarrowOrDeepUnchanged ==
    (oriented # None /\ (NumCols <= 10 \/ NumRows >= NumCols))
    => /\ oriented[1].headers = table.headers
       /\ oriented[1].rows = table.rows

C17_Witness ==
    /\ oriented # None
    /\ NumCols = 10
    /\ NumRows = 1
    /\ oriented[1].headers = table.headers

\* the transposed table: the headers "Column 1".."Column N" for N rows, and
\* for every column its header followed by its cell of every row, in order
IsTransposed ==
    /\ oriented[1].headers =
          [n \in 1..NumRows |-> <<"Column", Blank, ToString(n)>>]
    /\ Len(oriented[1].rows) = NumCols
    /\ \A i \in 1..NumCols :
          oriented[1].rows[i] =
             <<table.headers[i]>> \o [k \in 1..NumRows |-> table.rows[k][i]]

\* C18 as stated: every table with more than ten columns and fewer rows than
\* columns comes back transposed.
C18_WideShallowIsTransposed ==
    (oriented # None /\ NumCols > 10 /\ NumRows < NumCols) => IsTransposed

\* C18: a table with more than ten columns and fewer rows than columns, whose
\* rows are as wide as its headers, comes back transposed when it has at
\* least one row, and as it was given when it has no row.
C18_WideShallowWithRowsIsTransposed ==
    (oriented # None /\ NumCols > 10 /\ NumRows < NumCols)
    => IF NumRows >= 1
       THEN IsTransposed
       ELSE oriented[1].headers = table.headers /\ oriented[1].rows = << >>

C18_Witness ==
    /\ oriented # None
    /\ NumCols = 11
    /\ NumRows = 2
    /\ IsTransposed
    /\ oriented[1].rows[11] = << <<"h", "11">>, <<"x", "1", "11">>, <<"x", "2", "11">> >>

\* the table as the extractor emits it at the end of the input: headers, at
\* least one row, every row as wide as the headers
EmittedWithRows ==
    /\ NumCols >= 1
    /\ NumRows >= 1
    /\ \A r \in 1..NumRows : Len(table.rows[r]) = NumCols

\* C28: the TableElement parse_response builds from a table the extractor
\* emitted has headers, and every one of its rows has as many cells as there
\* are headers, whether the table was transposed or not.
C28_TableElementIsRectangular ==
    (oriented # None /\ EmittedWithRows)
    => LET e == TableElement(oriented[1].headers, oriented[1].rows)
       IN /\ e = ParseElement(table)
          /\ e.headers # << >>
          /\ \A r \in 1..Len(e.rows) : Len(e.rows[r]) = Len(e.headers)

\* line i comes to the image rule outside a table, and is an image line
ImageLine(i) ==
    LET line == Strip(TextLines[i])
    IN /\ ~BeforeLine(i).in_table
       /\ line # << >>
       /\ ~HeadingMatch(line)
       /\ ~ListItemMatch(line)
       /\ ~TableRowMatch(line)
       /\ ImageMatch(line)

\* the last position of token t in s, 0 when there is none
LastIndexOf(s, t) ==
    LET I == {i \in 1..Len(s) : s[i] = t}
    IN IF I = {} THEN 0 ELSE CHOOSE i \in I : \A j \in I : j <= i

\* the url without its path prefix and without its file extension
FileNameStem(url) ==
    LET name == SubSeq(url, LastIndexOf(url, "/") + 1, Len(url))
        dot == LastIndexOf(name, ".")
    IN IF dot = 0 THEN name ELSE SubSeq(name, 1, dot - 1)

\* C21: for every image line ![alt](url) the extractor flushes the pending
\* paragraph and emits an image descriptor whose id is the url without its
\* path prefix and file extension and whose caption is the alt text.
C21_ImageIdIsFileNameStem ==
    (extracted # None /\ Scanned)
    => \A i \in 1..Len(TextLines) :
          ImageLine(i)
          => LET before == BeforeLine(i)
                 after == process_line(before, TextLines[i])
                 line == Strip(TextLines[i])
                 alt == SubSeq(line, 2, IndexOf(line, "](") - 1)
                 url == SubSeq(UrlPart(line), 1,
                               IndexOf(UrlPart(line), ")") - 1)
                 image == ImageDescriptor(FileNameStem(url), alt)
             IN /\ after.elements =
                      Append(Flushed(before.elements, before.current_text),
                             image)
                /\ after.current_text = << >>
                /\ extracted[1].ok
                /\ \E k \in 1..Len(extracted[1].val) :
                      extracted[1].val[k] = image

\* the descriptors appended while line i is processed; for i one past the
\* last line, the descriptors appended after the loop
AppendedAt(i) ==
    LET before == BeforeLine(i).elements
        after == IF i <= Len(TextLines) THEN BeforeLine(i + 1).elements
                 ELSE process_lines(TextLines)
    IN SubSeq(after, Len(before) + 1, Len(after))

\* the line the paragraph pending before line i started at
ParagraphStart(i) ==
    CHOOSE j \in 1..(i - 1) :
        /\ BeforeLine(j).current_text = << >>
        /\ \A k \in (j + 1)..(i - 1) : BeforeLine(k).current_text # << >>

\* the header line of the table open before line i
TableStart(i) ==
    CHOOSE j \in 1..(i - 1) :
        /\ ~BeforeLine(j).in_table
        /\ \A k \in (j + 1)..(i - 1) : BeforeLine(k).in_table

\* the first source line of a descriptor appended at line i: a paragraph and
\* a table come from lines before i, every other descriptor from line i
FirstSourceLine(d, i) ==
    CASE d.type = "paragraph" -> ParagraphStart(i)
      [] d.type = "table" -> TableStart(i)
      [] OTHER -> i

\* the first source lines of the descriptors appended from line i on
RECURSIVE SourceLinesFrom(_)
SourceLinesFrom(i) ==
    IF i > Len(TextLines) + 1 THEN << >>
    ELSE [k \in 1..Len(AppendedAt(i)) |-> FirstSourceLine(AppendedAt(i)[k], i)]
         \o SourceLinesFrom(i + 1)

\* C24: the descriptors extract_elements_from_text returns are in the order
\* of the lines they come from: when descriptor A stands before descriptor B,
\* the first source line of A is before the first source line of B.
C24_DescriptorsInLineOrder ==
    (extracted # None /\ Scanned /\ extracted[1] = Returns(process_lines(TextLines)))
    => LET src == SourceLinesFrom(1)
       IN /\ Len(src) = Len(extracted[1].val)
          /\ \A a, b \in 1..Len(src) : a < b => src[a] < src[b]

\* C27: every heading, paragraph and list-item descriptor that
\* extract_elements_from_text returns has a content that is not empty once
\* the white space around it is removed.
C27_TextContentNotEmpty ==
    (extracted # None /\ extracted[1].ok)
    => \A k \in 1..Len(extracted[1].val) :
          LET d == extracted[1].val[k]
          IN d.type \in {"heading", "paragraph", "list_item"}
             => Strip(d.content) # << >>

C20_EveryInputKeepsItsOutput ==
    batch # None
    => \A i \in 1..Len(batch[1].handed) :
          batch[1].succeeded[i]
          => LET p == batch[1].handed[i]
                 checksum == calculate_sha512(fileState, p).val
             IN /\ get_output_path(p) \in DOMAIN outFiles
                /\ outFiles[get_output_path(p)] = cache[checksum].markdown[1]

\* C29: every Document in the cache has its markdown set, is stored under
\* its own checksum, and was stored by a call in which OCR and rendering both
\* succeeded for that checksum; a call that fails before rendering completes
\* leaves the cache as it was; no entry is ever removed or replaced.
C29_CacheHoldsRenderedDocuments ==
    /\ [](\A c \in DOMAIN cache :
            /\ cache[c].markdown # None
            /\ cache[c].checksum = c
            /\ Count(ocrDone, c) >= 1)
    /\ [][/\ \A c \in DOMAIN cache :
               c \in DOMAIN cache' /\ cache'[c] = cache[c]
          /\ \A c \in DOMAIN cache' \ DOMAIN cache :
               /\ last'[1].checksum = Some(c)
               /\ ~last'[1].cacheHit
               /\ last'[1].ocrInvoked /\ last'[1].renderInvoked
               /\ Count(ocrDone', c) = Count(ocrDone, c) + 1
               /\ cache'[c] = render_markdown(Document(c, cache'[c].elements, None)).val
          /\ ocrDone' = ocrDone => cache' = cache]_vars

\* a Document is in the cache, and the last call, for another checksum,
\* failed in OCR, before anything was rendered
C29_Witness ==
    /\ cache # << >>
    /\ last # None
    /\ ~last[1].result.ok
    /\ last[1].ocrInvoked
    /\ ~last[1].renderInvoked
    /\ last[1].checksum # None
    /\ last[1].checksum[1] \notin DOMAIN cache
    /\ \A c \in DOMAIN cache : cache[c].markdown # None

\* C22: render_markdown changes nothing of the document except its markdown
\* field: every element, each table's rows included, is the same after
\* rendering as before.
C22_RenderChangesOnlyMarkdown ==
    (rendered # None /\ rendered[1].ok)
    => /\ document.elements = rendered[1].input.elements
       /\ document.checksum = rendered[1].input.checksum

(***************************************************************************)
(* Inputs of the loading of the settings.                                  *)
(***************************************************************************)
\* the files a user may have: any of the four keys, batch_size in range or
\* above it
UserConfigFiles ==
    {AbsentFile, MalformedFile} \cup
    { ConfigFile("present", a, b, o, l) :
        a \in {None, Some("user-key")},
        b \in {None, Some("10"), Some("50")},
        o \in {None, Some("/user/out")},
        l \in {None, Some("INFO")} }

SystemConfigFiles ==
    {AbsentFile, MalformedFile} \cup
    { ConfigFile("present", a, b, o, l) :
        a \in {None, Some("sys-key")},
        b \in {None, Some("15")},
        o \in {None, Some("/sys/out")},
        l \in {None, Some("DEBUG")} }

\* each variable is not set, empty, or set
Environs ==
    { [MISTRAL_API_KEY |-> a, INTAKE_DOCUMENT_OUTPUT_DIR |-> o,
       INTAKE_DOCUMENT_LOG_LEVEL |-> l] :
        a \in {None, Some(""), Some("env-key")},
        o \in {None, Some(""), Some("/env/out")},
        l \in {None, Some(""), Some("WARNING")} }

(***************************************************************************)
(* SpecConfig: the first read of Config.settings.                          *)
(***************************************************************************)
InitConfig ==
    /\ configFiles \in
          { [dir \in DOMAIN NoConfigFiles |->
                IF dir = UserDir THEN u ELSE s] :
              u \in UserConfigFiles, s \in SystemConfigFiles }
    /\ environ \in Environs
    /\ settings = None
    /\ RendererIdle
    /\ ProcessorIdle
    /\ ExtractorIdle
    /\ RequestIdle

\* config.settings, while self._settings is None
LoadSettings ==
    /\ settings = None
    /\ settings' = Some(load_settings(configFiles, environ))
    /\ UNCHANGED <<configFiles, environ>>
    /\ UNCHANGED rendererVars
    /\ UNCHANGED processorVars
    /\ UNCHANGED extractorVars
    /\ UNCHANGED requestVars

NextConfig == LoadSettings

SpecConfig == InitConfig /\ [][NextConfig]_vars

(***************************************************************************)
(* Claims about the settings.                                              *)
(***************************************************************************)
\* the value of key k in the loaded settings
Loaded(k) ==
    CASE k = "api_key" -> settings[1].val.mistral.api_key
      [] k = "batch_size" -> Some(settings[1].val.mistral.batch_size)
      [] k = "output_dir" -> Some(settings[1].val.app.output_dir)
      [] k = "log_level" -> Some(settings[1].val.app.log_level)

\* the values the config files that exist hold for key k
FileValues(k) ==
    { configFiles[dir][k] :
        dir \in {d \in DOMAIN configFiles :
                    configFiles[d].state = "present"} } \ {None}

\* the value of key k when nothing sets it
DefaultOf(k) ==
    CASE k = "api_key" -> None
      [] k = "batch_size" -> Some(5)
      [] k = "output_dir" -> Some("./output")
      [] k = "log_level" -> Some("ERROR")

\* the string a config file holds, as the settings hold it
AsLoaded(k, v) == IF k = "batch_size" THEN Some(IntOf(v[1])) ELSE v

Overridden(k) ==
    /\ k \in {"api_key", "output_dir", "log_level"}
    /\ environ[EnvVarOf(k)] \notin {None, Some("")}

\* C23: in the loaded settings a non-empty MISTRAL_API_KEY,
\* INTAKE_DOCUMENT_OUTPUT_DIR or INTAKE_DOCUMENT_LOG_LEVEL stands for its
\* key whatever the config files hold; every other key has a value of a
\* config file that sets it or, when no file sets it, its default
\* (batch_size 5, max_retries 3, output_dir ./output, log_level ERROR).
C23_EnvironmentOverridesFiles ==
    (settings # None /\ settings[1].ok)
    => /\ \A k \in ConfigKeys :
             IF Overridden(k) THEN Loaded(k) = environ[EnvVarOf(k)]
             ELSE IF FileValues(k) # {}
             THEN \E v \in FileValues(k) : Loaded(k) = AsLoaded(k, v)
             ELSE Loaded(k) = DefaultOf(k)
       /\ settings[1].val.mistral.max_retries = 3

C23_Witness ==
    /\ settings # None
    /\ settings[1].ok
    /\ environ.MISTRAL_API_KEY = Some("env-key")
    /\ environ.INTAKE_DOCUMENT_OUTPUT_DIR = Some("")
    /\ environ.INTAKE_DOCUMENT_LOG_LEVEL = None
    /\ configFiles[UserDir] =
          ConfigFile("present", Some("user-key"), Some("10"),
                     Some("/user/out"), None)
    /\ configFiles[SystemDirs[1]] = AbsentFile
    /\ settings[1].val =
          Settings(Some("env-key"), 10, 3, 60, "/user/out", "ERROR")

\* C26: when the user config file and a system config file set the same
\* key, the loaded settings hold the user file's value.
C26_UserFileTakesPrecedence ==
    (settings # None /\ settings[1].ok)
    => \A k \in ConfigKeys :
          (/\ ~Overridden(k)
           /\ configFiles[UserDir].state = "present"
           /\ configFiles[UserDir][k] # None)
          => Loaded(k) = AsLoaded(k, configFiles[UserDir][k])

(***************************************************************************)
(* Inputs of the OCR client.                                               *)
(***************************************************************************)
\* what the PDF text extractor found: nothing, the empty string, a text
\* shorter than ten characters, a text of ten characters
ExtractedTexts ==
    {None, Some(<< >>), Some(<<"ok">>), Some(<<"plain", Blank, "text">>)}

\* a PDF with each of these, and an image, for which no text is extracted
FileInfos ==
    {FileInfo("doc.pdf", t) : t \in ExtractedTexts}
    \cup {FileInfo("scan.png", None)}

\* the contents the service answers with: empty, too short to be parsed,
\* one plain line, a heading and a paragraph
ReplyContents ==
    { << >>,
      <<"ok">>,
      <<"plain", Blank, "text">>,
      <<"#", Blank, "Title", NL, "plain", Blank, "text">> }

\* the messages client.chat.complete fails with, one for every class of
\* error; none of them holds a key word inside a longer word
FailureMessages ==
    { <<"connection", Blank, "refused">>,
      <<"unauthorized">>,
      <<"rate", Blank, "limit">>,
      <<"timed", Blank, "out">>,
      <<"boom">> }

Replies ==
    {Content(c) : c \in ReplyContents}
    \cup {NoChoices}
    \cup {Failure(m) : m \in FailureMessages}

(***************************************************************************)
(* SpecOcr: _extract_document_elements applied to a prepared file.         *)
(***************************************************************************)
InitOcr ==
    /\ file_info \in FileInfos
    /\ api \in {MistralAPI(i, t, d) : i \in BOOLEAN, t \in Replies, d \in Replies}
    /\ requests = << >>
    /\ outcome = None
    /\ RendererIdle
    /\ ProcessorIdle
    /\ ExtractorIdle
    /\ ConfigIdle

\* what the call leaves: its outcome and the request methods it called
Called(r) ==
    /\ outcome' = Some(r.outcome)
    /\ requests' = r.requests

\* self._extract_document_elements(file_info)
ExtractDocumentElements ==
    /\ outcome = None
    /\ Called(extract_document_elements(file_info, api))
    /\ UNCHANGED <<file_info, api>>
    /\ UNCHANGED rendererVars
    /\ UNCHANGED processorVars
    /\ UNCHANGED extractorVars
    /\ UNCHANGED configVars

NextOcr == ExtractDocumentElements

SpecOcr == InitOcr /\ [][NextOcr]_vars

(***************************************************************************)
(* Claims about the OCR client.                                            *)
(***************************************************************************)
\* the file came with pre-extracted text
HasExtractedText ==
    file_info.extracted_text # None /\ CharLen(file_info.extracted_text[1]) > 0

\* the text request returned no content, raised, or its content could not
\* be parsed
TextPathFailed ==
    LET answer == send_text_ocr_request(api, file_info.extracted_text[1])
    IN  \/ ~answer.result.ok
        \/ answer.result.val = None
        \/ ~process_api_response(answer.result.val[1]).ok

RequestKinds == [i \in 1..Len(requests) |-> requests[i].kind]

\* C25: with pre-extracted text the text request is made first and the
\* full-document request only if the text path returned no content or
\* raised; without it only the full-document request is made.  A failure of
\* the text path is never the outcome: whenever the full-document request
\* was made the outcome is that path's elements or an OCRError, and the API
\* is asked at most twice.
C25_TextFirstThenFullDocument ==
    outcome # None
    => /\ ~HasExtractedText => RequestKinds = <<"document">>
       /\ (HasExtractedText /\ TextPathFailed)
             => RequestKinds = <<"text", "document">>
       /\ (HasExtractedText /\ ~TextPathFailed) => RequestKinds = <<"text">>
       /\ Cardinality({i \in 1..Len(requests) : requests[i].sent}) <= 2
       /\ outcome[1].ok \/ outcome[1].err.kind = "OCRError"
       /\ (~HasExtractedText \/ TextPathFailed)
             => outcome[1] = DocumentPath(api, file_info.file_path)

\* the text request raised, the full-document request was sent as well and
\* its elements are the outcome
C25_Witness ==
    /\ outcome # None
    /\ HasExtractedText
    /\ ~send_text_ocr_request(api, file_info.extracted_text[1]).result.ok
    /\ Len(requests) = 2
    /\ \A i \in 1..2 : requests[i].sent
    /\ outcome[1].ok

(***************************************************************************)
(* SpecRoundTrip: render_markdown applied to a document of well-formed     *)
(* elements, then the extractor applied to the markdown.                   *)
(***************************************************************************)
\* The markdown of the renderer as the raw text the extractor reads: the
\* same characters, cut into the extractor's tokens ("![" and "](" are one
\* token each, '/' and '.' tokens of their own).  RawTokens is what token i
\* of the markdown becomes.
RawTokens(s, i) ==
    IF s[i] = "!" /\ i < Len(s) /\ s[i + 1] = "[" THEN <<"![">>
    ELSE IF s[i] = "[" /\ i > 1 /\ s[i - 1] = "!" THEN << >>
    ELSE IF s[i] = "]" /\ i < Len(s) /\ s[i + 1] = "(" THEN <<"](">>
    ELSE IF s[i] = "(" /\ i > 1 /\ s[i - 1] = "]" THEN << >>
    ELSE IF s[i] = "images/" THEN <<"images", "/">>
    ELSE IF s[i] = ".png" THEN <<".", "png">>
    ELSE <<s[i]>>

RECURSIVE RawBetween(_, _, _)
RawBetween(s, lo, hi) ==
    IF lo > hi THEN << >>
    ELSE IF lo = hi THEN RawTokens(s, lo)
    ELSE RawBetween(s, lo, (lo + hi) \div 2)
         \o RawBetween(s, (lo + hi) \div 2 + 1, hi)

AsRawText(s) == RawBetween(s, 1, Len(s))

\* Well-formed elements: a heading of the lowest and of the highest level, a
\* paragraph, a list item, a table with headers and one full-width row, an
\* image with id and caption.  No content holds a markdown token, and each
\* renders to ten characters or more.
WellFormedPool ==
    { TextElement(<<"Sample", Blank, "Document">>, Some(MinHeadingLevel), FALSE),
      TextElement(<<"Last", Blank, "Section">>, Some(MaxHeadingLevel), FALSE),
      TextElement(<<"plain", Blank, "paragraph">>, None, FALSE),
      TextElement(<<"First", Blank, "item">>, None, TRUE),
      TableElement(<< <<"Column1">>, <<"Column2">> >>,
                   << << <<"Data1">>, <<"Data2">> >> >>),
      ImageElement(<<"img001">>, Some(<<"caption">>)) }

\* documents of one to MaxElems of them whose markdown has at most
\* MaxRenderedLines lines, the blank lines between elements included; the
\* document of test_render_complete_document is a longer one of the same
\* make
WellFormedDocs ==
    { es \in SeqsUpTo(WellFormedPool, MaxElems) \ {<< >>} :
        Len(Split(RenderLoop(es, 1, << >>), NL)) <= MaxRenderedLines }

InitRoundTrip ==
    /\ document \in {Document("abc123def456", es, None) : es \in WellFormedDocs}
    /\ rendered = None
    /\ element = NoElement
    /\ elementResult = None
    /\ ProcessorIdle
    /\ ExtractorIdle
    /\ ConfigIdle
    /\ RequestIdle

\* extractor.extract_elements_from_text(document.markdown), and
\* parse_response on what it returns
ExtractRendered ==
    /\ rendered # None
    /\ rendered[1].ok
    /\ extracted = None
    /\ text' = AsRawText(document.markdown[1])
    /\ extracted' = Some(extract_elements_from_text(text'))
    /\ apiResult' = Some(process_api_response(text'))
    /\ UNCHANGED <<table, oriented>>
    /\ UNCHANGED rendererVars
    /\ UNCHANGED processorVars
    /\ UNCHANGED configVars
    /\ UNCHANGED requestVars

NextRoundTrip == RenderMarkdown \/ ExtractRendered

SpecRoundTrip == InitRoundTrip /\ [][NextRoundTrip]_vars

\* C30: for a document of well-formed elements, extract_elements_from_text
\* and parse_response applied to the output of render_markdown give back
\* the document's elements, in the same order.
C30_ExtractionInvertsRendering ==
    (rendered # None /\ apiResult # None)
    => /\ Flatten(text) = Flatten(document.markdown[1])
       /\ apiResult[1].ok
       /\ apiResult[1].val = rendered[1].input.elements

=============================================================================
